---------------------------- MODULE Spec2Model ----------------------------
(***************************************************************************)
(* Expense tracker: the email -> expense pipeline of the repository.       *)
(*                                                                         *)
(* Two implementations of the pipeline live in the repository:             *)
(*   "celery": src/gmail-integration.py  (process_email_message)           *)
(*   "async" : src/task-scheduler.py     (process_email, MLEmailParser)    *)
(* Both write to the relational store whose schema is in                   *)
(* src/backend-setup.py.  A deployment runs one of them: impl is fixed     *)
(* by Init.                                                                *)
(*                                                                         *)
(* Money is counted in cents (45.00 is 4500), so that amounts below one    *)
(* dollar exist in the model.                                              *)
(***************************************************************************)
EXTENDS Integers, Sequences, FiniteSets, TLC

(***************************************************************************)
(* Bounds of the model.                                                    *)
(***************************************************************************)
\* Calls of the message-processing operation in one behaviour.  Users and
\* message ids are interchangeable, so a behaviour of MaxRuns calls needs at
\* most MaxRuns of each.
MaxRuns == 2
\* Longest merchant text the validator is tried on.
MaxMerchantLen == 3

(***************************************************************************)
(* Program constants (cents).                                              *)
(***************************************************************************)
\* validate_extraction: result['amount'] > 50000 is rejected.
MaxValidAmount == 5000000

(***************************************************************************)
(* Python values.  A dict lookup may give None, a number or a text; a text *)
(* is a sequence of characters so that len() is Len.                       *)
(***************************************************************************)
PyNone == [t |-> "none"]
PyNum(n) == [t |-> "num", v |-> n]
PyStr(s) == [t |-> "str", v |-> s]

\* Python truthiness of a value: None, 0 and "" are falsy.
Truthy(x) ==
    CASE x.t = "none" -> FALSE
      [] x.t = "num"  -> x.v # 0
      [] x.t = "str"  -> Len(x.v) > 0
      [] x.t = "dict" -> DOMAIN x.d # {}

\* An extraction result: None or a dict from field names to values.
PyDict(d) == [t |-> "dict", d |-> d]
EmptyDict == PyDict(<<>>)
Has(result, key) == key \in DOMAIN result.d

(***************************************************************************)
(* MLEmailParser.validate_extraction (src/advanced-ai-backend.py:786-803)  *)
(***************************************************************************)
\* Mutant: the upper bound of the amount is not checked.
validate_extraction_no_upper(result) ==
    IF ~Truthy(result) THEN FALSE
    ELSE IF ~Has(result, "amount") \/ ~Has(result, "merchant") THEN FALSE
    ELSE IF ~Truthy(result.d["amount"]) \/ result.d["amount"].v <= 0 THEN FALSE
    ELSE IF ~Truthy(result.d["merchant"]) \/ Len(result.d["merchant"].v) < 2
         THEN FALSE
    ELSE TRUE

validate_extraction(result) ==
    IF ~Truthy(result) THEN FALSE
    ELSE IF ~Has(result, "amount") \/ ~Has(result, "merchant") THEN FALSE
    ELSE IF \/ ~Truthy(result.d["amount"])
            \/ result.d["amount"].v <= 0
            \/ result.d["amount"].v > MaxValidAmount THEN FALSE
    ELSE IF ~Truthy(result.d["merchant"]) \/ Len(result.d["merchant"].v) < 2
         THEN FALSE
    ELSE TRUE


(***************************************************************************)
(* Helpers on sequences.                                                   *)
(***************************************************************************)
SeqRange(s) == {s[i] : i \in DOMAIN s}
MaxOf(S) == CHOOSE x \in S : \A y \in S : y <= x
Count(s, x) == Cardinality({i \in DOMAIN s : s[i] = x})

\* Counter(s).most_common(1)[0][0]: the highest count, the element met first
\* among equals.
MostCommon(s) ==
    LET best == CHOOSE i \in DOMAIN s :
                    /\ \A j \in DOMAIN s : Count(s, s[j]) <= Count(s, s[i])
                    /\ \A j \in DOMAIN s :
                           Count(s, s[j]) = Count(s, s[i]) => i <= j
    IN s[best]

(***************************************************************************)
(* Amount choice of MLEmailParser (src/advanced-ai-backend.py:643-650 and  *)
(* 717-723): the largest amount within [1, 10000] dollars, else the        *)
(* largest of all.                                                         *)
(***************************************************************************)
PlausibleMin == 100
PlausibleMax == 1000000

\* Mutant: the largest amount of all, in range or not.
select_amount_largest(amounts) == MaxOf(SeqRange(amounts))

select_amount(amounts) ==
    LET filtered_amounts ==
            {a \in SeqRange(amounts) : PlausibleMin <= a /\ a <= PlausibleMax}
    IN IF filtered_amounts # {} THEN MaxOf(filtered_amounts)
       ELSE MaxOf(SeqRange(amounts))

(***************************************************************************)
(* MLEmailParser.extract_merchant_from_subject                             *)
(* (src/advanced-ai-backend.py:751-784).  The subject is given by what the *)
(* entity recogniser and the patterns find in it:                          *)
(*   blank : the subject is the empty text                                 *)
(*   orgs  : the ORG entities, in order                                    *)
(*   pats  : group 1 (stripped) of the patterns that match, in pattern     *)
(*           order                                                         *)
(*   words : subject.split()                                               *)
(***************************************************************************)
UnknownMerchant == <<"U", "n", "k", "n", "o", "w", "n">>

extract_merchant_from_subject(subject) ==
    IF subject.blank THEN PyNone
    ELSE IF subject.orgs # <<>> THEN PyStr(subject.orgs[1])
    ELSE IF subject.pats # <<>> THEN PyStr(subject.pats[1])
    ELSE IF subject.words # <<>> THEN PyStr(subject.words[1])
    ELSE PyStr(UnknownMerchant)

(***************************************************************************)
(* MLEmailParser.extract_with_transformers                                 *)
(* (src/advanced-ai-backend.py:679-749).  ner is what the NER pipeline     *)
(* gives on the text: raises (any exception inside the try, which returns  *)
(* None), the amounts of its MONEY/CARDINAL entities and its ORG words.    *)
(***************************************************************************)
extract_with_transformers(ner, subject) ==
    IF ner.raises THEN PyNone
    ELSE LET merchant == IF ner.orgs # <<>> THEN PyStr(ner.orgs[1])
                         ELSE extract_merchant_from_subject(subject)
         IN IF ner.amounts # <<>>
            THEN PyDict([amount   |-> PyNum(select_amount(ner.amounts)),
                         merchant |-> merchant])
            ELSE PyNone

(***************************************************************************)
(* The fallback of MLEmailParser.extract_expense_details                   *)
(* (src/advanced-ai-backend.py:635-677).  nlp is the result of             *)
(* ExpenseNLPProcessor.extract_email_info: the amounts that follow a "$"   *)
(* and the ORG entities of the text.                                       *)
(***************************************************************************)
heuristic_extract(nlp, subject) ==
    LET merchant == IF nlp.merchants # <<>> THEN PyStr(MostCommon(nlp.merchants))
                    ELSE extract_merchant_from_subject(subject)
    IN IF nlp.amounts # <<>>
       THEN PyDict([amount   |-> PyNum(select_amount(nlp.amounts)),
                    merchant |-> merchant])
       ELSE PyNone

(***************************************************************************)
(* MLEmailParser.extract_expense_details                                   *)
(* (src/advanced-ai-backend.py:627-677): the model first when one is       *)
(* loaded, its result only if validate_extraction accepts it, else the     *)
(* fallback, whose result is returned as it is.                            *)
(***************************************************************************)
\* Mutant: the model's result is returned whenever there is one, valid or not.
ml_extract_expense_details_unvalidated(ner_model, m) ==
    IF ner_model /\ extract_with_transformers(m.ner, m.subject) # PyNone
    THEN extract_with_transformers(m.ner, m.subject)
    ELSE heuristic_extract(m.nlp, m.subject)

ml_extract_expense_details(ner_model, m) ==
    IF ner_model /\ validate_extraction(extract_with_transformers(m.ner, m.subject))
    THEN extract_with_transformers(m.ner, m.subject)
    ELSE heuristic_extract(m.nlp, m.subject)

(***************************************************************************)
(* extract_expense_details and extract_merchant_from_subject of the celery *)
(* pipeline (src/gmail-integration.py:129-233).  re is what the regular    *)
(* expressions find:                                                       *)
(*   labelled : the amounts of the labelled patterns that match, in        *)
(*              pattern order                                              *)
(*   general  : the amount of the "$"-only pattern, if it matches          *)
(*   subj     : group 1 (stripped) of the subject patterns that match      *)
(*   text     : group 1 (stripped) of the body merchant patterns that      *)
(*              match                                                      *)
(* With no merchant from either, line 187 reads the name message, which no *)
(* scope of the function defines: NameError.                               *)
(***************************************************************************)
PyRaise(what) == [t |-> "raise", what |-> what]

gmail_extract_merchant_from_subject(re) ==
    IF re.subj # <<>> THEN PyStr(re.subj[1]) ELSE PyNone

gmail_extract_expense_details(re) ==
    LET amount == IF re.labelled # <<>> THEN <<re.labelled[1]>>
                  ELSE IF re.general # <<>> THEN <<re.general[1]>>
                  ELSE <<>>
        merchant_from_subject == gmail_extract_merchant_from_subject(re)
        merchant == IF Truthy(merchant_from_subject) THEN <<merchant_from_subject>>
                    ELSE IF re.text # <<>> THEN <<PyStr(re.text[1])>>
                    ELSE <<>>
    IN IF merchant = <<>> THEN PyRaise("NameError")
       ELSE IF amount # <<>>
            THEN PyDict([amount |-> PyNum(amount[1]), merchant |-> merchant[1]])
            ELSE PyNone


(***************************************************************************)
(* Messages.  A message is given by what the extractors find in it, by     *)
(* whether its body decodes, by the category name the classifier predicts  *)
(* for it (ExpenseNLPProcessor.predict_category) and by the rules of the   *)
(* celery categorizer that match it.                                       *)
(***************************************************************************)
Acme == <<"A", "c", "m", "e">>
Receipt == <<"R", "e", "c", "e", "i", "p", "t">>

PlainSubject == [blank |-> FALSE, orgs |-> <<>>, pats |-> <<>>, words |-> <<Receipt>>]
BlankSubject == [blank |-> TRUE, orgs |-> <<>>, pats |-> <<>>, words |-> <<>>]
NoRules == [merchant_hits |-> <<>>, seasonal |-> FALSE, travel |-> FALSE]

Message(amounts, merchants, subject, label, decode_error) ==
    [decode_error |-> decode_error,
     ner     |-> [raises |-> FALSE, amounts |-> amounts, orgs |-> merchants],
     nlp     |-> [amounts |-> amounts, merchants |-> merchants],
     subject |-> subject,
     re      |-> [labelled |-> <<>>, general |-> amounts,
                  subj |-> merchants, text |-> <<>>],
     label   |-> label,
     rules   |-> NoRules]

\* The kinds of message the mailbox may hold:
\*   1, 2  receipts with an amount and a merchant
\*   3     a receipt whose only amount is $999999.00
\*   4     an amount, no merchant anywhere and an empty subject
\*   5     a merchant and no amount
\*   6     a body that does not decode
Mail ==
    << Message(<<4500>>, <<Acme>>, PlainSubject, "Travel", FALSE),
       Message(<<99>>, <<Acme, Acme>>, PlainSubject, "travel", FALSE),
       Message(<<99999900>>, <<Acme>>, PlainSubject, "Travel", FALSE),
       Message(<<4500>>, <<>>, BlankSubject, "Travel", FALSE),
       Message(<<>>, <<Acme>>, PlainSubject, "Travel", FALSE),
       Message(<<4500>>, <<Acme>>, PlainSubject, "Travel", TRUE) >>

(***************************************************************************)
(* Category names, and str.lower() on them.                                *)
(***************************************************************************)
Lower(name) ==
    CASE name = "Other"  -> "other"
      [] name = "Travel" -> "travel"
      [] name = "Holiday" -> "holiday"
      [] name = "Transportation" -> "transportation"
      [] name = "Uncategorized" -> "uncategorized"
      [] name = "Gifts" -> "gifts"
      [] OTHER           -> name

\* Category.name.ilike(category_name): equal without regard to case (the
\* names of the model hold no % or _).
ilike(name, pattern) == Lower(name) = Lower(pattern)

(***************************************************************************)
(* State.                                                                  *)
(***************************************************************************)
VARIABLES
    impl,        \* "celery" or "async": the pipeline this deployment runs
    expenses,    \* committed rows of table expenses
    categories,  \* committed rows of table categories
    nextCatId,   \* the sequence behind categories.id
    mailbox,     \* message id -> index in Mail, 0 while nobody has fetched it
    runs,        \* the calls of the message-processing operation
    tasks,       \* user -> the user's fetch task (fetch_emails, fetch_emails_for_user)
    queue,       \* celery: the process_email_message tasks waiting for a worker
    candidate,   \* the extraction result handed to validate_extraction
    verdict,     \* what validate_extraction returned for it
    input,       \* the arguments of a component called on its own
    output,      \* what the component returned or raised for them
    objects      \* what lives in the process and on its disk besides: model
                 \* files and loads, the websocket registry, table users

dbvars == <<expenses, categories, nextCatId>>
schedvars == <<tasks, queue>>
valvars == <<candidate, verdict, input, output, objects>>
vars == <<impl, expenses, categories, nextCatId, mailbox, runs, tasks, queue,
          candidate, verdict, input, output, objects>>

Runs == 1 .. MaxRuns
Users == 1 .. MaxRuns
Msgs == 1 .. MaxRuns
\* An id that is in no row of table users.
GhostUser == MaxRuns + 1
\* Expense.category_id is nullable: NoId stands for None.
NoId == 0

IdleRun ==
    [pc |-> "idle", user |-> NoId, mid |-> NoId, existing |-> FALSE,
     steps |-> <<>>, cand |-> PyNone, category_id |-> NoId, new_category |-> {},
     outcome |-> "none", err |-> ""]

\* A call that ended before it built an expense.  existing: what the dedup query
\* gave (existing_expense), FALSE while it has not run.
Ended(u, mid, existing, steps, outcome, err) ==
    [pc |-> "done", user |-> u, mid |-> mid, existing |-> existing,
     steps |-> steps, cand |-> PyNone, category_id |-> NoId, new_category |-> {},
     outcome |-> outcome, err |-> err]

\* A call that holds an extraction result and goes on to categorize it.
Extracted(u, mid, existing, steps, results) ==
    [pc |-> "categorize", user |-> u, mid |-> mid, existing |-> existing,
     steps |-> steps, cand |-> results, category_id |-> NoId, new_category |-> {},
     outcome |-> "none", err |-> ""]

Started(r) == runs[r].pc # "idle"
Done(r) == runs[r].pc = "done"


(***************************************************************************)
(* process_email (src/task-scheduler.py:96-132), up to the extraction      *)
(* result.  existing: the dedup query of line 101 finds an expense with    *)
(* this email_id.  fault: what the collaborators do to this call           *)
(*   "store_read" the dedup query raises (line 101 is outside the try)     *)
(*   "mail"       the mail provider raises (line 108)                      *)
(*   "model"      the parser or its NLP pipeline raises (lines 129-130)    *)
(* Everything from line 106 on is inside the try of lines 106-159, whose   *)
(* handler logs the error and rolls back.                                  *)
(***************************************************************************)
\* The handler of process_email (src/task-scheduler.py:157-159): the exception
\* is logged, the session rolled back, and the call returns.
\* Mutant: the exception leaves process_email.
process_email_handler_reraise == "raised"

process_email_handler == "logged_error"

\* The steps of a call, in the order the code takes them.
AsyncSteps == <<"dedup", "fetch", "body", "extract">>
AsyncStepsFetchFirst == <<"fetch", "body", "extract", "dedup">>
CelerySteps == <<"user", "dedup", "fetch", "body", "extract">>
Upto(steps, step) ==
    SubSeq(steps, 1, CHOOSE i \in DOMAIN steps : steps[i] = step)

\* Mutant: the message is fetched and parsed before the dedup query.
process_email_head_fetch_first(u, mid, existing, fault, msg, ner_model) ==
    LET at(step) == Upto(AsyncStepsFetchFirst, step)
        results == ml_extract_expense_details(ner_model, msg)
    IN IF fault = "mail"
       THEN Ended(u, mid, FALSE, at("fetch"), process_email_handler, "mail")
       ELSE IF msg.decode_error
       THEN Ended(u, mid, FALSE, at("body"), process_email_handler, "decode")
       ELSE IF fault = "model"
       THEN Ended(u, mid, FALSE, at("extract"), process_email_handler, "model")
       ELSE IF fault = "store_read"
       THEN Ended(u, mid, FALSE, at("dedup"), "raised", "store_read")
       ELSE IF existing
       THEN Ended(u, mid, existing, at("dedup"), "skipped_duplicate", "")
       ELSE IF Truthy(results) /\ Has(results, "amount") /\ Has(results, "merchant")
       THEN Extracted(u, mid, existing, at("dedup"), results)
       ELSE Ended(u, mid, existing, at("dedup"), "skipped_no_details", "")

\* Mutant: the result of the dedup query is not looked at.
process_email_head_no_dedup(u, mid, existing, fault, msg, ner_model) ==
    LET at(step) == Upto(AsyncSteps, step)
        results == ml_extract_expense_details(ner_model, msg)
    IN IF fault = "store_read"
       THEN Ended(u, mid, FALSE, at("dedup"), "raised", "store_read")
       ELSE IF fault = "mail"
       THEN Ended(u, mid, existing, at("fetch"), process_email_handler, "mail")
       ELSE IF msg.decode_error
       THEN Ended(u, mid, existing, at("body"), process_email_handler, "decode")
       ELSE IF fault = "model"
       THEN Ended(u, mid, existing, at("extract"), process_email_handler, "model")
       ELSE IF Truthy(results) /\ Has(results, "amount") /\ Has(results, "merchant")
       THEN Extracted(u, mid, existing, at("extract"), results)
       ELSE Ended(u, mid, existing, at("extract"), "skipped_no_details", "")

process_email_head(u, mid, existing, fault, msg, ner_model) ==
    LET at(step) == Upto(AsyncSteps, step)
        results == ml_extract_expense_details(ner_model, msg)
    IN IF fault = "store_read"
       THEN Ended(u, mid, FALSE, at("dedup"), "raised", "store_read")
       ELSE IF existing
       THEN Ended(u, mid, existing, at("dedup"), "skipped_duplicate", "")
       ELSE IF fault = "mail"
       THEN Ended(u, mid, existing, at("fetch"), process_email_handler, "mail")
       ELSE IF msg.decode_error
       THEN Ended(u, mid, existing, at("body"), process_email_handler, "decode")
       ELSE IF fault = "model"
       THEN Ended(u, mid, existing, at("extract"), process_email_handler, "model")
       ELSE IF Truthy(results) /\ Has(results, "amount") /\ Has(results, "merchant")
       THEN Extracted(u, mid, existing, at("extract"), results)
       ELSE Ended(u, mid, existing, at("extract"), "skipped_no_details", "")

(***************************************************************************)
(* process_email_message (src/gmail-integration.py:55-108), up to the      *)
(* extraction result.  Nothing in the task catches an exception: a raise   *)
(* ends the task as failed.                                                *)
(***************************************************************************)
\* Mutant: the message is fetched and parsed before the dedup query.
process_email_message_head_fetch_first(u, mid, existing, fault, msg) ==
    LET at(step) == Upto(<<"user", "fetch", "body", "extract", "dedup">>, step)
        results == gmail_extract_expense_details(msg.re)
    IN IF u \notin Users
       THEN Ended(u, mid, FALSE, at("user"), "error_user_not_found", "")
       ELSE IF fault = "mail"
       THEN Ended(u, mid, FALSE, at("fetch"), "raised", "mail")
       ELSE IF msg.decode_error
       THEN Ended(u, mid, FALSE, at("body"), "raised", "decode")
       ELSE IF results.t = "raise"
       THEN Ended(u, mid, FALSE, at("extract"), "raised", "extract")
       ELSE IF fault = "store_read"
       THEN Ended(u, mid, FALSE, at("dedup"), "raised", "store_read")
       ELSE IF existing
       THEN Ended(u, mid, existing, at("dedup"), "skipped_duplicate", "")
       ELSE IF Truthy(results)
       THEN Extracted(u, mid, existing, at("dedup"), results)
       ELSE Ended(u, mid, existing, at("dedup"), "skipped_no_details", "")

\* Mutant: the result of the dedup query is not looked at.
process_email_message_head_no_dedup(u, mid, existing, fault, msg) ==
    LET at(step) == Upto(CelerySteps, step)
        results == gmail_extract_expense_details(msg.re)
    IN IF u \notin Users
       THEN Ended(u, mid, FALSE, at("user"), "error_user_not_found", "")
       ELSE IF fault = "store_read"
       THEN Ended(u, mid, FALSE, at("dedup"), "raised", "store_read")
       ELSE IF fault = "mail"
       THEN Ended(u, mid, existing, at("fetch"), "raised", "mail")
       ELSE IF msg.decode_error
       THEN Ended(u, mid, existing, at("body"), "raised", "decode")
       ELSE IF results.t = "raise"
       THEN Ended(u, mid, existing, at("extract"), "raised", "extract")
       ELSE IF Truthy(results)
       THEN Extracted(u, mid, existing, at("extract"), results)
       ELSE Ended(u, mid, existing, at("extract"), "skipped_no_details", "")

process_email_message_head(u, mid, existing, fault, msg) ==
    LET at(step) == Upto(CelerySteps, step)
        results == gmail_extract_expense_details(msg.re)
    IN IF u \notin Users
       THEN Ended(u, mid, FALSE, at("user"), "error_user_not_found", "")
       ELSE IF fault = "store_read"
       THEN Ended(u, mid, FALSE, at("dedup"), "raised", "store_read")
       ELSE IF existing
       THEN Ended(u, mid, existing, at("dedup"), "skipped_duplicate", "")
       ELSE IF fault = "mail"
       THEN Ended(u, mid, existing, at("fetch"), "raised", "mail")
       ELSE IF msg.decode_error
       THEN Ended(u, mid, existing, at("body"), "raised", "decode")
       ELSE IF results.t = "raise"
       THEN Ended(u, mid, existing, at("extract"), "raised", "extract")
       ELSE IF Truthy(results)
       THEN Extracted(u, mid, existing, at("extract"), results)
       ELSE Ended(u, mid, existing, at("extract"), "skipped_no_details", "")

(***************************************************************************)
(* The start of a call: the user and message it is for, and its steps up   *)
(* to the extraction result.  The content of a message is fixed by the     *)
(* first call that fetches it.                                             *)
(***************************************************************************)
Faults == {"none", "store_read", "mail", "model"}
Contents(mid) == IF mailbox[mid] = NoId THEN DOMAIN Mail ELSE {mailbox[mid]}
Existing(mid) == \E e \in expenses : e.email_id = mid
Fetched(run) == "body" \in SeqRange(run.steps)

\* Mutant: the dedup query also filters on the user.
ExistingFor(u, mid) == \E e \in expenses : e.email_id = mid /\ e.user_id = u
Begin_dedup_per_user(r, u, mid) ==
    /\ runs[r].pc = "idle"
    /\ \E k \in Contents(mid), fault \in Faults, ner_model \in BOOLEAN :
         LET run == IF impl = "async"
                    THEN process_email_head(u, mid, ExistingFor(u, mid), fault,
                                            Mail[k], ner_model)
                    ELSE process_email_message_head(u, mid, ExistingFor(u, mid), fault,
                                                    Mail[k])
         IN /\ runs' = [runs EXCEPT ![r] = run]
            /\ mailbox' = IF Fetched(run) THEN [mailbox EXCEPT ![mid] = k]
                          ELSE mailbox
    /\ UNCHANGED <<impl, dbvars, valvars>>

Begin(r, u, mid) ==
    /\ runs[r].pc = "idle"
    /\ \E k \in Contents(mid), fault \in Faults, ner_model \in BOOLEAN :
         LET run == IF impl = "async"
                    THEN process_email_head(u, mid, Existing(mid), fault,
                                            Mail[k], ner_model)
                    ELSE process_email_message_head(u, mid, Existing(mid), fault,
                                                    Mail[k])
         IN /\ runs' = [runs EXCEPT ![r] = run]
            /\ mailbox' = IF Fetched(run) THEN [mailbox EXCEPT ![mid] = k]
                          ELSE mailbox
    /\ UNCHANGED <<impl, dbvars, valvars>>


\* A call that ends on an exception: what its session holds is rolled back
\* (process_email, line 159) or dropped with the failed task.
Fail(run, step, outcome, err) ==
    [run EXCEPT !.pc = "done", !.steps = Append(run.steps, step),
                !.new_category = {},
                !.outcome = outcome, !.err = err]

\* How a call of this deployment ends on an exception raised after the
\* extraction: logged and rolled back by process_email's handler, or a
\* failed celery task.
Raised == IF impl = "async" THEN process_email_handler ELSE "raised"

(***************************************************************************)
(* categorize_expense of the async pipeline (src/task-scheduler.py:196-218)*)
(* called from process_email line 144: the classifier's label, the lookup  *)
(* of the user's category of that name, and a new category, flushed but    *)
(* not committed, when the lookup finds none.                              *)
(***************************************************************************)
\* Mutant: the new category is committed on its own.
categorize_expense_commits(r) ==
    LET run == runs[r]
        category_name == Mail[mailbox[run.mid]].label
        found == {c \in categories :
                      ilike(c.name, category_name) /\ c.user_id = run.user}
        new_category == [id |-> nextCatId, name |-> category_name,
                         user_id |-> run.user]
    IN /\ impl = "async"
       /\ run.pc = "categorize"
       /\ \/ /\ runs' = [runs EXCEPT ![r] = Fail(run, "categorize", Raised, "model")]
             /\ UNCHANGED dbvars
          \/ /\ found # {}
             /\ \E c \in found :
                  runs' = [runs EXCEPT ![r].pc = "commit",
                                       ![r].steps = Append(run.steps, "categorize"),
                                       ![r].category_id = c.id]
             /\ UNCHANGED dbvars
          \/ /\ found = {}
             /\ runs' = [runs EXCEPT ![r].pc = "commit",
                                     ![r].steps = Append(run.steps, "categorize"),
                                     ![r].category_id = new_category.id]
             /\ categories' = categories \cup {new_category}
             /\ nextCatId' = nextCatId + 1
             /\ UNCHANGED expenses
       /\ UNCHANGED <<impl, mailbox, schedvars, valvars>>

categorize_expense(r) ==
    LET run == runs[r]
        category_name == Mail[mailbox[run.mid]].label
        found == {c \in categories :
                      ilike(c.name, category_name) /\ c.user_id = run.user}
        new_category == [id |-> nextCatId, name |-> category_name,
                         user_id |-> run.user]
    IN /\ impl = "async"
       /\ run.pc = "categorize"
       /\ \/ /\ runs' = [runs EXCEPT ![r] = Fail(run, "categorize", Raised, "model")]
             /\ UNCHANGED dbvars
          \/ /\ found # {}
             /\ \E c \in found :
                  runs' = [runs EXCEPT ![r].pc = "commit",
                                       ![r].steps = Append(run.steps, "categorize"),
                                       ![r].category_id = c.id]
             /\ UNCHANGED dbvars
          \/ /\ found = {}
             /\ runs' = [runs EXCEPT ![r].pc = "commit",
                                     ![r].steps = Append(run.steps, "categorize"),
                                     ![r].category_id = new_category.id,
                                     ![r].new_category = {new_category}]
             /\ nextCatId' = nextCatId + 1
             /\ UNCHANGED <<expenses, categories>>
       /\ UNCHANGED <<impl, mailbox, schedvars, valvars>>

(***************************************************************************)
(* categorize_expense of the celery pipeline                               *)
(* (src/gmail-integration.py:235-282): rules over the user's categories,   *)
(* keyed by lower-cased name; it never creates a category.  When two of    *)
(* the user's categories have the same lower-cased name, the dict keeps    *)
(* the one the query gives last: either.                                   *)
(***************************************************************************)
CategoryIds(cats, lname) == {c.id : c \in {x \in cats : Lower(x.name) = lname}}

gmail_categorize_choices(cats, rules) ==
    LET hits == {i \in DOMAIN rules.merchant_hits :
                     CategoryIds(cats, rules.merchant_hits[i]) # {}}
        first == CHOOSE i \in hits : \A j \in hits : i <= j
    IN IF hits # {} THEN CategoryIds(cats, rules.merchant_hits[first])
       ELSE IF rules.seasonal /\ CategoryIds(cats, "holiday") # {}
       THEN CategoryIds(cats, "holiday")
       ELSE IF rules.seasonal /\ CategoryIds(cats, "christmas") # {}
       THEN CategoryIds(cats, "christmas")
       ELSE IF rules.travel /\ CategoryIds(cats, "travel") # {}
       THEN CategoryIds(cats, "travel")
       ELSE IF CategoryIds(cats, "uncategorized") # {}
       THEN CategoryIds(cats, "uncategorized")
       ELSE IF CategoryIds(cats, "other") # {}
       THEN CategoryIds(cats, "other")
       ELSE {NoId}

gmail_categorize_expense(r) ==
    LET run == runs[r]
        cats == {c \in categories : c.user_id = run.user}
    IN /\ impl = "celery"
       /\ run.pc = "categorize"
       /\ \E id \in gmail_categorize_choices(cats, Mail[mailbox[run.mid]].rules) :
            runs' = [runs EXCEPT ![r].pc = "commit",
                                 ![r].steps = Append(run.steps, "categorize"),
                                 ![r].category_id = id]
       /\ UNCHANGED <<impl, dbvars, mailbox, schedvars, valvars>>

(***************************************************************************)
(* Table expenses (src/backend-setup.py:66-76): amount and merchant are    *)
(* nullable=False, email_id is unique=True.  What the insert of row e      *)
(* raises against the committed rows, "" when it is accepted.              *)
(***************************************************************************)
\* Mutant: email_id is not declared unique.
expense_insert_error_no_unique(rows, e) ==
    IF e.amount.t = "none" \/ e.merchant.t = "none" THEN "integrity_not_null"
    ELSE ""

expense_insert_error(rows, e) ==
    IF e.amount.t = "none" \/ e.merchant.t = "none" THEN "integrity_not_null"
    ELSE IF \E x \in rows : x.email_id = e.email_id THEN "integrity_duplicate"
    ELSE ""

(***************************************************************************)
(* db.add(expense); db.commit() (src/task-scheduler.py:146-147,            *)
(* src/gmail-integration.py:122-125): one transaction inserts the expense  *)
(* and whatever the session holds besides.  fault: the store fails on      *)
(* commit for a reason of its own.                                         *)
(***************************************************************************)
Commit(r) ==
    LET run == runs[r]
        expense == [id |-> Cardinality(expenses) + 1,
                    email_id |-> run.mid, user_id |-> run.user,
                    amount |-> run.cand.d["amount"],
                    merchant |-> run.cand.d["merchant"],
                    category_id |-> run.category_id]
        error == expense_insert_error(expenses, expense)
    IN /\ run.pc = "commit"
       /\ \/ /\ runs' = [runs EXCEPT ![r] = Fail(run, "commit", Raised, "commit")]
             /\ UNCHANGED dbvars
          \/ /\ error # ""
             /\ runs' = [runs EXCEPT ![r] = Fail(run, "commit", Raised, error)]
             /\ UNCHANGED dbvars
          \/ /\ error = ""
             /\ expenses' = expenses \cup {expense}
             /\ categories' = categories \cup run.new_category
             /\ runs' = [runs EXCEPT ![r].pc = "done",
                                     ![r].steps = Append(run.steps, "commit"),
                                     ![r].new_category = {},
                                     ![r].outcome = "persisted"]
             /\ UNCHANGED nextCatId
       /\ UNCHANGED <<impl, mailbox, schedvars, valvars>>

(***************************************************************************)
(* A call abandoned between categorization and commit (the task is         *)
(* cancelled, the worker dies): its session never commits.                 *)
(***************************************************************************)
Abandon(r) ==
    /\ runs[r].pc = "commit"
    /\ runs' = [runs EXCEPT ![r] = Fail(runs[r], "abandon", "abandoned", "")]
    /\ UNCHANGED <<impl, dbvars, mailbox, schedvars, valvars>>

(***************************************************************************)
(* Specifications.                                                         *)
(***************************************************************************)
IdleTask == [st |-> "idle", msgs |-> <<>>, calls |-> <<>>]

\* Every user starts with the category "Other".
Init ==
    /\ impl \in {"celery", "async"}
    /\ expenses = {}
    /\ categories = {[id |-> u, name |-> "Other", user_id |-> u] : u \in Users}
    /\ nextCatId = MaxRuns + 1
    /\ mailbox = [m \in Msgs |-> NoId]
    /\ runs = [r \in Runs |-> IdleRun]
    /\ tasks = [u \in Users |-> IdleTask]
    /\ queue = {}
    /\ candidate = PyNone
    /\ verdict = "pending"
    /\ input = PyNone
    /\ output = PyNone
    /\ objects = PyNone

\* Users and message ids are interchangeable: a call takes a user (a
\* message) that an earlier call took, or the next new one.
MaxUsed(S) == IF S = {} THEN 0 ELSE MaxOf(S)
UsedUsers == {runs[r].user : r \in {x \in Runs : Started(x)}} \cap Users
UsedMsgs == {runs[r].mid : r \in {x \in Runs : Started(x)}}
Callers == {u \in Users : u <= MaxUsed(UsedUsers) + 1}
            \cup (IF impl = "celery" THEN {GhostUser} ELSE {})
Callable == {m \in Msgs : m <= MaxUsed(UsedMsgs) + 1}

\* Calls run concurrently: call r starts once the calls before it have started.
StartRun(r) ==
    /\ \A q \in Runs : q < r => Started(q)
    /\ \E u \in Callers, mid \in Callable : Begin(r, u, mid)
    /\ UNCHANGED schedvars

\* Calls run one after the other: call r starts once the calls before it are done.
StartRunSeq(r) ==
    /\ \A q \in Runs : q < r => Done(q)
    /\ \E u \in Callers, mid \in Callable : Begin(r, u, mid)
    /\ UNCHANGED schedvars

Next ==
    \E r \in Runs :
        \/ StartRun(r)
        \/ categorize_expense(r)
        \/ gmail_categorize_expense(r)
        \/ Commit(r)
        \/ Abandon(r)

Spec == Init /\ [][Next]_vars

NextSeq ==
    \E r \in Runs :
        \/ StartRunSeq(r)
        \/ categorize_expense(r)
        \/ gmail_categorize_expense(r)
        \/ Commit(r)
        \/ Abandon(r)

SpecSeq == Init /\ [][NextSeq]_vars


(***************************************************************************)
(* The schedulers.  schedule_email_fetch and schedule_email_fetching start *)
(* one fetch task per user (src/task-scheduler.py:43-59,                   *)
(* src/gmail-integration.py:284-292).  A task's list of messages is what   *)
(* the mail provider returns for the query: distinct message ids.          *)
(***************************************************************************)
Budget == MaxRuns - Cardinality({<<u, i>> \in Users \X (1 .. MaxRuns) :
                                      i \in DOMAIN tasks[u].msgs})
ListedMsgs == UNION {{tasks[u].msgs[i] : i \in DOMAIN tasks[u].msgs} : u \in Users}
\* Users and message ids are interchangeable: the tasks start in the order of
\* the users, and a list names a new message id only after the ids below it.
MessageLists ==
    {l \in UNION {[1 .. n -> Msgs] : n \in 0 .. Budget} :
         /\ \A i \in DOMAIN l, j \in DOMAIN l : l[i] = l[j] => i = j
         /\ \A i \in DOMAIN l :
                l[i] <= 1 + MaxUsed(ListedMsgs \cup {l[j] : j \in 1 .. i - 1})}
Startable(u) == tasks[u].st = "idle" /\ (u > 1 => tasks[u - 1].st # "idle")
NextRun == CHOOSE r \in Runs : ~Started(r) /\ \A q \in Runs : q < r => Started(q)
LastCall(u) == tasks[u].calls[Len(tasks[u].calls)]

(***************************************************************************)
(* fetch_emails (src/task-scheduler.py:61-94), the async task of a user:   *)
(* the list of messages, then process_email on each in turn.  An exception *)
(* that leaves process_email reaches the handler of line 93, which is      *)
(* outside the loop.                                                       *)
(***************************************************************************)
\* Lines 65-86: no service (line 74) or a failing list call (line 93) end the
\* task; else the loop starts.
fetch_emails_list(u) ==
    /\ impl = "async"
    /\ Startable(u)
    /\ \/ tasks' = [tasks EXCEPT ![u].st = "failed"]
       \/ \E l \in MessageLists :
            tasks' = [tasks EXCEPT ![u].st = "running", ![u].msgs = l]
    /\ UNCHANGED <<impl, dbvars, mailbox, runs, queue, valvars>>

\* Lines 89-90: the next message of the list, once the call before it returned.
fetch_emails_next(u) ==
    /\ impl = "async"
    /\ tasks[u].st = "running"
    /\ Len(tasks[u].calls) < Len(tasks[u].msgs)
    /\ tasks[u].calls # <<>> =>
           /\ Done(LastCall(u))
           /\ runs[LastCall(u)].outcome # "raised"
    /\ Begin(NextRun, u, tasks[u].msgs[Len(tasks[u].calls) + 1])
    /\ tasks' = [tasks EXCEPT ![u].calls = Append(@, NextRun)]
    /\ UNCHANGED queue

\* Lines 92-94: the loop ends after the last message, or on an exception that
\* left process_email.
fetch_emails_end(u) ==
    /\ impl = "async"
    /\ tasks[u].st = "running"
    /\ tasks[u].calls # <<>> => Done(LastCall(u))
    /\ \/ /\ tasks[u].calls # <<>>
          /\ runs[LastCall(u)].outcome = "raised"
          /\ tasks' = [tasks EXCEPT ![u].st = "aborted"]
       \/ /\ tasks[u].calls # <<>> => runs[LastCall(u)].outcome # "raised"
          /\ Len(tasks[u].calls) = Len(tasks[u].msgs)
          /\ tasks' = [tasks EXCEPT ![u].st = "done"]
    /\ UNCHANGED <<impl, dbvars, mailbox, runs, queue, valvars>>

(***************************************************************************)
(* fetch_emails_for_user (src/gmail-integration.py:35-53), the celery task *)
(* of a user: the list of messages, and one process_email_message task     *)
(* queued for each (delay, line 51).  A worker takes a queued task and     *)
(* runs it; workers run side by side.                                      *)
(***************************************************************************)
fetch_emails_for_user(u) ==
    /\ impl = "celery"
    /\ Startable(u)
    /\ \/ /\ tasks' = [tasks EXCEPT ![u].st = "failed"]
          /\ UNCHANGED queue
       \/ \E l \in MessageLists :
            /\ tasks' = [tasks EXCEPT ![u].st = "done", ![u].msgs = l]
            /\ queue' = queue \cup {<<u, l[i]>> : i \in DOMAIN l}
    /\ UNCHANGED <<impl, dbvars, mailbox, runs, valvars>>

worker(u, mid) ==
    /\ impl = "celery"
    /\ <<u, mid>> \in queue
    /\ Begin(NextRun, u, mid)
    /\ queue' = queue \ {<<u, mid>>}
    /\ UNCHANGED tasks

NextSched ==
    \/ \E u \in Users :
        \/ fetch_emails_list(u)
        \/ fetch_emails_next(u)
        \/ fetch_emails_end(u)
        \/ fetch_emails_for_user(u)
        \/ \E mid \in Msgs : worker(u, mid)
    \/ \E r \in Runs :
        \/ categorize_expense(r)
        \/ gmail_categorize_expense(r)
        \/ Commit(r)

SpecSched == Init /\ [][NextSched]_vars

(***************************************************************************)
(* validate_extraction on its own: Init draws the extraction result it is  *)
(* handed, Validate calls it.                                              *)
(***************************************************************************)
Chars == {"A", "b"}
Texts == UNION {[1 .. n -> Chars] : n \in 0 .. MaxMerchantLen}
AmountValues ==
    {PyNone} \cup {PyNum(n) : n \in {-100, 0, 1, 4500, MaxValidAmount,
                                      MaxValidAmount + 1}}
MerchantValues == {PyNone} \cup {PyStr(t) : t \in Texts}
Candidates ==
    {PyNone, EmptyDict}
    \cup {PyDict([amount |-> a]) : a \in AmountValues}
    \cup {PyDict([merchant |-> m]) : m \in MerchantValues}
    \cup {PyDict([amount |-> a, merchant |-> m]) :
              a \in AmountValues, m \in MerchantValues}

InitVal ==
    /\ impl = "async"
    /\ expenses = {}
    /\ categories = {[id |-> u, name |-> "Other", user_id |-> u] : u \in Users}
    /\ nextCatId = MaxRuns + 1
    /\ mailbox = [m \in Msgs |-> NoId]
    /\ runs = [r \in Runs |-> IdleRun]
    /\ tasks = [u \in Users |-> IdleTask]
    /\ queue = {}
    /\ candidate \in Candidates
    /\ verdict = "pending"
    /\ input = PyNone
    /\ output = PyNone
    /\ objects = PyNone

Validate ==
    /\ verdict = "pending"
    /\ verdict' = IF validate_extraction(candidate) THEN "accept" ELSE "reject"
    /\ UNCHANGED <<impl, dbvars, mailbox, runs, schedvars, candidate, input, output,
                   objects>>

SpecVal == InitVal /\ [][Validate]_vars

(***************************************************************************)
(* Claims.                                                                 *)
(***************************************************************************)
StepAt(run, step) == CHOOSE i \in DOMAIN run.steps : run.steps[i] = step
Did(run, step) == step \in SeqRange(run.steps)
ExpensesOf(mid) == {e \in expenses : e.email_id = mid}

\* What the collaborators (store, mail provider, models, the scheduler that
\* cancels a task) can do to a call, as recorded in its err and outcome.
CollaboratorFaults == {"store_read", "mail", "model", "commit"}
Undisturbed(run) == run.err \notin CollaboratorFaults /\ run.outcome # "abandoned"

\* C1 (SpecSeq: calls one after the other).  Idempotence: of two calls for
\* the same (user, message), where the first extracted a valid expense, no
\* expense of that message was stored before it, and no collaborator failed,
\* the first ends Persisted, the second Skipped(duplicate), and the store holds
\* exactly one expense with that email_id.
C1_Idempotent ==
    \A r1 \in Runs, r2 \in Runs :
        ( /\ r1 < r2 /\ Done(r1) /\ Done(r2)
          /\ runs[r1].user = runs[r2].user /\ runs[r1].mid = runs[r2].mid
          /\ validate_extraction(runs[r1].cand)
          /\ ~runs[r1].existing
          /\ Undisturbed(runs[r1]) /\ Undisturbed(runs[r2]) )
        => /\ runs[r1].outcome = "persisted"
           /\ runs[r2].outcome = "skipped_duplicate"
           /\ Cardinality(ExpensesOf(runs[r1].mid)) = 1

C1_Witness ==
    \E r1 \in Runs, r2 \in Runs :
        /\ r1 < r2 /\ Done(r1) /\ Done(r2)
        /\ runs[r1].user = runs[r2].user /\ runs[r1].mid = runs[r2].mid
        /\ validate_extraction(runs[r1].cand)
        /\ runs[r1].outcome = "persisted"
        /\ runs[r2].outcome = "skipped_duplicate"

\* C2.  Every expense the pipeline stored has an amount in (0, 50000] and a
\* merchant of at least 2 characters.
C2_StoredExpensesValid ==
    \A e \in expenses :
        /\ e.amount.t = "num" /\ e.amount.v > 0 /\ e.amount.v <= MaxValidAmount
        /\ e.merchant.t = "str" /\ Len(e.merchant.v) >= 2

\* C3.  In every call the dedup query comes before the fetch of the message,
\* and a call whose dedup query found an expense ends Skipped(duplicate)
\* having fetched, decoded, extracted, categorized and committed nothing.
C3_DedupFirst ==
    \A r \in Runs :
        /\ Did(runs[r], "fetch") =>
               /\ Did(runs[r], "dedup")
               /\ StepAt(runs[r], "dedup") < StepAt(runs[r], "fetch")
        /\ runs[r].existing =>
               /\ runs[r].outcome = "skipped_duplicate"
               /\ \A step \in {"fetch", "body", "extract", "categorize", "commit"} :
                      ~Did(runs[r], step)

C3_Witness ==
    \E r \in Runs :
        /\ runs[r].existing
        /\ runs[r].outcome = "skipped_duplicate"
        /\ ExpensesOf(runs[r].mid) # {}

\* C4.  The store never holds two expenses with the same email_id, whatever
\* the interleaving of the calls.
C4_UniqueEmailId ==
    \A e1 \in expenses, e2 \in expenses :
        e1.email_id = e2.email_id => e1 = e2

\* Two calls for one message both passed the dedup query; one committed.
C4_Witness ==
    \E r1 \in Runs, r2 \in Runs :
        /\ r1 # r2 /\ runs[r1].mid = runs[r2].mid
        /\ ~runs[r1].existing /\ ~runs[r2].existing
        /\ runs[r1].outcome = "persisted"
        /\ Did(runs[r2], "categorize") /\ runs[r2].err = "integrity_duplicate"

\* C5.  A call whose commit the store rejects because the email_id is already
\* there ends as a skipped duplicate.
C5_ConflictIsNoOp ==
    \A r \in Runs :
        runs[r].err = "integrity_duplicate" => runs[r].outcome = "skipped_duplicate"

\* C6.  No user has two categories whose names are equal without regard to
\* case.
C6_NoDuplicateCategory ==
    \A c1 \in categories, c2 \in categories :
        (c1.user_id = c2.user_id /\ Lower(c1.name) = Lower(c2.name)) => c1 = c2

\* C7.  Persistence is atomic: a stored expense's category is stored, and a
\* category the pipeline created is stored only together with an expense that
\* links to it.
CreatedByPipeline(c) == c.id > MaxRuns
C7_AtomicPersistence ==
    /\ \A e \in expenses :
           e.category_id # NoId => \E c \in categories : c.id = e.category_id
    /\ \A c \in categories :
           CreatedByPipeline(c) => \E e \in expenses : e.category_id = c.id

\* A call that had flushed a new category failed or was abandoned before its
\* commit, and another call committed an expense with the category it created.
C7_Witness ==
    /\ \E r \in Runs :
           /\ Done(r) /\ runs[r].outcome \in {"abandoned", "logged_error"}
           /\ runs[r].category_id > MaxRuns
           /\ \A c \in categories : c.id # runs[r].category_id
    /\ \E r \in Runs :
           /\ runs[r].outcome = "persisted"
           /\ runs[r].category_id > MaxRuns

\* C9.  A call ends Persisted or Skipped(reason) and in no other way.  Stated
\* for the calls no collaborator disturbed and whose user exists: the claim
\* covers them, and every other call besides.
C9_PersistedOrSkipped ==
    \A r \in Runs :
        (Done(r) /\ Undisturbed(runs[r]) /\ runs[r].user \in Users)
        => runs[r].outcome \in {"persisted", "skipped_duplicate", "skipped_no_details"}

\* C10.  validate_extraction rejects a candidate exactly when its amount is
\* absent, <= 0 or > 50000, or its merchant is absent or shorter than 2
\* characters, and it leaves the candidate as it was.
Absent(c, key) == c.t = "none" \/ key \notin DOMAIN c.d \/ c.d[key].t = "none"
ClaimRejects(c) ==
    \/ Absent(c, "amount")
    \/ Absent(c, "merchant")
    \/ c.d["amount"].v <= 0
    \/ c.d["amount"].v > 5000000
    \/ Len(c.d["merchant"].v) < 2

C10_Validator ==
    /\ [](verdict # "pending" => (verdict = "reject" <=> ClaimRejects(candidate)))
    /\ [][candidate' = candidate]_vars

\* The validator accepted an amount of exactly 50000 with a 2-character merchant.
C10_Witness ==
    /\ verdict = "accept"
    /\ candidate.d["amount"].v = MaxValidAmount
    /\ Len(candidate.d["merchant"].v) = 2

\* C8.  A failure while one message is processed (mail provider, decoding,
\* extraction, model, commit) does not keep the later messages of the user,
\* nor the messages of other users, from being attempted: such a failure never
\* ends a user's loop, a loop that ended normally has attempted every message
\* of its list, and every queued celery task stays queued until a worker
\* starts it.
ListedFailures ==
    {"mail", "decode", "extract", "model", "commit", "integrity_duplicate",
     "integrity_not_null"}
Attempted(u, mid) ==
    \E r \in Runs : Started(r) /\ runs[r].user = u /\ runs[r].mid = mid
C8_FailureDoesNotStopLoop ==
    \A u \in Users :
        /\ tasks[u].st = "aborted" => runs[LastCall(u)].err \notin ListedFailures
        /\ (tasks[u].st = "running" /\ tasks[u].calls # <<>>
              /\ Done(LastCall(u)) /\ runs[LastCall(u)].err \in ListedFailures
              /\ Len(tasks[u].calls) < Len(tasks[u].msgs))
           => ENABLED fetch_emails_next(u)
        /\ tasks[u].st = "done" =>
               \A i \in DOMAIN tasks[u].msgs :
                   Attempted(u, tasks[u].msgs[i]) \/ <<u, tasks[u].msgs[i]>> \in queue

\* A message failed with a listed failure and the message after it was attempted.
C8_Witness ==
    \E u \in Users :
        /\ Len(tasks[u].calls) >= 2
        /\ runs[tasks[u].calls[1]].err \in ListedFailures
        /\ Started(tasks[u].calls[2])

(***************************************************************************)
(* Components called on their own.  Init draws the arguments into input;   *)
(* the one action of each specification calls the component and puts what  *)
(* it returned or raised into output.  The pipeline is at rest meanwhile.  *)
(***************************************************************************)
Pending == [t |-> "pending"]
pipevars == <<impl, dbvars, mailbox, runs, schedvars, candidate, verdict, objects>>
AtRest ==
    /\ expenses = {}
    /\ categories = {[id |-> u, name |-> "Other", user_id |-> u] : u \in Users}
    /\ nextCatId = MaxRuns + 1
    /\ mailbox = [m \in Msgs |-> NoId]
    /\ runs = [r \in Runs |-> IdleRun]
    /\ tasks = [u \in Users |-> IdleTask]
    /\ queue = {}
    /\ candidate = PyNone
    /\ verdict = "pending"
    /\ objects = PyNone

(***************************************************************************)
(* The body of a message.  A payload has a list of parts or, without the   *)
(* key 'parts', a body of its own; a part has a mimeType and a body whose  *)
(* 'data' is absent or empty, decodes to a text, is no base64              *)
(* (binascii.Error) or decodes to bytes that are no UTF-8                  *)
(* (UnicodeDecodeError).                                                   *)
(***************************************************************************)
\* Most parts a payload of the check has.
MaxParts == 2

NoData == [kind |-> "empty"]
TextData == [kind |-> "ok", text |-> <<"o", "k">>]
BadBase64 == [kind |-> "base64"]
BadUtf8 == [kind |-> "utf8"]
\* Data that decodes to markup around the text "hi".
HtmlData == [kind |-> "ok", text |-> <<"<p>", "h", "i", "</p>">>]
Datas == {NoData, TextData, HtmlData, BadBase64, BadUtf8}
MimeTypes == {"text/plain", "text/html", "multipart/alternative"}
\* A part is a section with a body, or a multipart section that nests one.
Sections == [mimeType : {"text/plain", "text/html"}, data : Datas, parts : {<<>>}]
Parts ==
    Sections
    \cup [mimeType : {"multipart/alternative"}, data : {NoData},
          parts : {<<>>} \cup {<<p>> : p \in Sections}]
Payloads ==
    {[has_parts |-> FALSE, parts |-> <<>>, data |-> d] : d \in Datas}
    \cup {[has_parts |-> TRUE, parts |-> ps, data |-> NoData] :
              ps \in UNION {[1 .. n -> Parts] : n \in 0 .. MaxParts}}

\* base64.urlsafe_b64decode(data).decode('utf-8')
b64decode_utf8(data) ==
    CASE data.kind = "ok"     -> PyStr(data.text)
      [] data.kind = "base64" -> PyRaise("binascii.Error")
      [] data.kind = "utf8"   -> PyRaise("UnicodeDecodeError")
      [] OTHER                -> PyStr(<<>>)

\* The first part of the given type that has data, 0 when there is none.
FirstWithData(parts, mimeType) ==
    LET hits == {i \in DOMAIN parts :
                     parts[i].mimeType = mimeType /\ parts[i].data.kind # "empty"}
    IN IF hits = {} THEN 0 ELSE CHOOSE i \in hits : \A j \in hits : i <= j

\* BeautifulSoup(html, 'html.parser').get_text(separator=' ', strip=True):
\* the text without its tags.
Tags == {"<p>", "</p>"}
IsText(token) == token \notin Tags
get_text(html) ==
    IF html.t = "str" THEN PyStr(SelectSeq(html.v, IsText)) ELSE html

\* extract_email_body (src/task-scheduler.py:161-194)
extract_email_body(payload) ==
    IF payload.has_parts
    THEN LET plain == FirstWithData(payload.parts, "text/plain")
             html == FirstWithData(payload.parts, "text/html")
         IN IF plain # 0 THEN b64decode_utf8(payload.parts[plain].data)
            ELSE IF html # 0 THEN get_text(b64decode_utf8(payload.parts[html].data))
            ELSE PyStr(<<>>)
    ELSE IF payload.data.kind # "empty" THEN b64decode_utf8(payload.data)
    ELSE PyStr(<<>>)

\* The body of process_email_message (src/gmail-integration.py:86-103): the
\* data of the first text/plain part, or of the last text/html part before it.
RECURSIVE gmail_part_data(_, _, _)
gmail_part_data(parts, i, data) ==
    IF i > Len(parts) THEN data
    ELSE IF parts[i].mimeType = "text/plain" THEN parts[i].data
    ELSE IF parts[i].mimeType = "text/html"
         THEN gmail_part_data(parts, i + 1, parts[i].data)
    ELSE gmail_part_data(parts, i + 1, data)

gmail_extract_body(payload) ==
    LET data == IF payload.has_parts THEN gmail_part_data(payload.parts, 1, NoData)
                ELSE payload.data
    IN IF data.kind # "empty" THEN b64decode_utf8(data) ELSE PyStr(<<>>)

InitBody ==
    /\ impl \in {"celery", "async"}
    /\ AtRest
    /\ input \in Payloads
    /\ output = Pending

ExtractBody ==
    /\ output = Pending
    /\ input \in Payloads
    /\ output' = IF impl = "async" THEN extract_email_body(input)
                 ELSE gmail_extract_body(input)
    /\ UNCHANGED <<pipevars, input>>

SpecBody == InitBody /\ [][ExtractBody]_vars

\* C11.  For a payload none of whose bodies decodes to a text (each is empty
\* or undecodable), the body extractor returns the empty string; it never
\* raises.
NoDecodableBody(payload) ==
    /\ payload.data.kind # "ok"
    /\ \A i \in DOMAIN payload.parts :
         /\ payload.parts[i].data.kind # "ok"
         /\ \A j \in DOMAIN payload.parts[i].parts :
              payload.parts[i].parts[j].data.kind # "ok"
C11_EmptyOnUndecodable ==
    (input \in Payloads /\ output # Pending /\ NoDecodableBody(input))
    => output = PyStr(<<>>)


(***************************************************************************)
(* The field extractors called on their own.  The arguments are what the   *)
(* entity recognisers and the regular expressions find in (subject, text), *)
(* as in Message, and whether MLEmailParser holds a model (ner_model).     *)
(***************************************************************************)
OneLetter == <<"X">>
PatternSubject == [blank |-> FALSE, orgs |-> <<>>, pats |-> <<Acme>>, words |-> <<Receipt>>]
OrgSubject == [blank |-> FALSE, orgs |-> <<OneLetter>>, pats |-> <<Acme>>, words |-> <<Receipt>>]
AmountLists == {<<>>, <<4500>>, <<99999900>>, <<4500, 99999900>>}
OrgLists == {<<>>, <<Acme>>, <<OneLetter>>, <<OneLetter, Acme, Acme>>}
Subjects == {BlankSubject, PlainSubject, PatternSubject, OrgSubject}
NoNer == [raises |-> FALSE, amounts |-> <<>>, orgs |-> <<>>]
NoNlp == [amounts |-> <<>>, merchants |-> <<>>]
NoRe == [labelled |-> <<>>, general |-> <<>>, subj |-> <<>>, text |-> <<>>]
Ners ==
    {[raises |-> TRUE, amounts |-> <<>>, orgs |-> <<>>]}
    \cup [raises : {FALSE}, amounts : AmountLists, orgs : OrgLists]
MLEmailParserArgs ==
    [ner_model : BOOLEAN, ner : Ners,
     nlp : [amounts : AmountLists, merchants : OrgLists],
     subject : Subjects, re : {NoRe}]
GmailExtractorArgs ==
    [ner_model : {FALSE}, ner : {NoNer}, nlp : {NoNlp}, subject : {BlankSubject},
     re : [labelled : AmountLists, general : AmountLists,
           subj : OrgLists, text : OrgLists]]
ExtractorArgs == MLEmailParserArgs \cup GmailExtractorArgs

InitExtract ==
    /\ impl \in {"celery", "async"}
    /\ AtRest
    /\ input \in IF impl = "async" THEN MLEmailParserArgs ELSE GmailExtractorArgs
    /\ output = Pending

ExtractDetails ==
    /\ output = Pending
    /\ input \in ExtractorArgs
    /\ output' = IF impl = "async"
                 THEN ml_extract_expense_details(input.ner_model, input)
                 ELSE gmail_extract_expense_details(input.re)
    /\ UNCHANGED <<pipevars, input>>

SpecExtract == InitExtract /\ [][ExtractDetails]_vars

\* C12.  The heuristic field extractors return a result for every (subject,
\* text) and never raise, also when neither the subject nor the text gives a
\* merchant.
C12_ExtractorNeverRaises ==
    (input \in ExtractorArgs /\ output # Pending) => output.t # "raise"


(***************************************************************************)
(* The categorizers called on their own.  The arguments are the user's     *)
(* categories, the rules of the celery categorizer that match the expense  *)
(* (merchant_hits: the labels of merchant_rules, in table order, one of    *)
(* whose keywords is in the merchant; seasonal: November or December and a *)
(* gift keyword in the description; travel: a travel keyword in it) and    *)
(* the label the classifier predicts, "" when it gives none.  The result   *)
(* is the category_id set on the expense and the categories added to the   *)
(* session.                                                                *)
(***************************************************************************)
\* Most categories the user of the check has.
MaxCategories == 2
CategoryNames == {"Transportation", "Holiday", "Travel", "Uncategorized", "Other"}
CategorySets ==
    {{[id |-> i, name |-> f[i], user_id |-> 1] : i \in DOMAIN f} :
         f \in UNION {[1 .. n -> CategoryNames] : n \in 0 .. MaxCategories}}
MatchingRules ==
    [merchant_hits : {<<>>, <<"transportation">>, <<"restaurant", "transportation">>},
     seasonal : BOOLEAN, travel : BOOLEAN]
Labels == {"", "Travel", "Gifts"}
CategorizerArgs == [cats : CategorySets, rules : MatchingRules, label : Labels]

Assigned(id, created) == [t |-> "assigned", category_id |-> id, created |-> created]

\* Mutant: with no default category, any category of the user is taken.
gmail_categorize_results_any(cats, rules) ==
    {Assigned(id, {}) :
         id \in IF gmail_categorize_choices(cats, rules) = {NoId} /\ cats # {}
                THEN {c.id : c \in cats}
                ELSE gmail_categorize_choices(cats, rules)}

\* categorize_expense (src/gmail-integration.py:235-282) as a function.
gmail_categorize_results(cats, rules) ==
    {Assigned(id, {}) : id \in gmail_categorize_choices(cats, rules)}

\* categorize_expense (src/task-scheduler.py:196-218) as a function of the
\* user's categories and the predicted label; new_id is the id the flush
\* gives a new category.
categorize_results(cats, category_name, new_id) ==
    LET found == {c \in cats : ilike(c.name, category_name)}
    IN IF category_name = "" THEN {Assigned(NoId, {})}
       ELSE IF found # {} THEN {Assigned(c.id, {}) : c \in found}
       ELSE {Assigned(new_id, {category_name})}

InitCategorize ==
    /\ impl \in {"celery", "async"}
    /\ AtRest
    /\ input \in CategorizerArgs
    /\ output = Pending

Categorize ==
    /\ output = Pending
    /\ input \in CategorizerArgs
    /\ output' \in IF impl = "async"
                   THEN categorize_results(input.cats, input.label, nextCatId)
                   ELSE gmail_categorize_results(input.cats, input.rules)
    /\ UNCHANGED <<pipevars, input>>

SpecCategorize == InitCategorize /\ [][Categorize]_vars

\* C13.  First match wins: when a merchant keyword rule matches, the expense
\* gets the category of the first merchant rule that matches, whatever the
\* later rules (seasonal, travel, classifier, default) would give.
C13_MerchantRuleWins ==
    (input \in CategorizerArgs /\ output # Pending /\ input.rules.merchant_hits # <<>>)
    => \E c \in input.cats \cup {[id |-> nextCatId, user_id |-> 1,
                                   name |-> input.rules.merchant_hits[1]]} :
           /\ Lower(c.name) = input.rules.merchant_hits[1]
           /\ output.category_id = c.id

\* C14.  Default floor: when no rule matches, the classifier gives no label
\* and the user has neither "Uncategorized" nor "Other", the expense is left
\* without a category, no category is created, nothing is raised, and the
\* store accepts the expense without a category.
NoDefaultCategory(cats) ==
    \A c \in cats : Lower(c.name) \notin {"uncategorized", "other"}
AtDefaultFloor ==
    /\ input \in CategorizerArgs
    /\ input.rules = NoRules
    /\ input.label = ""
    /\ NoDefaultCategory(input.cats)
C14_DefaultFloor ==
    (AtDefaultFloor /\ output # Pending)
    => /\ output = Assigned(NoId, {})
       /\ expense_insert_error({}, [id |-> 1, email_id |-> 1, user_id |-> 1,
                                    amount |-> PyNum(4500), merchant |-> PyStr(Acme),
                                    category_id |-> output.category_id]) = ""

\* A user with categories, none of them a default, and no rule matching.
C14_Witness ==
    /\ AtDefaultFloor
    /\ input.cats # {}
    /\ output = Assigned(NoId, {})


(***************************************************************************)
(* Amount extraction from a text.  A text is a sequence of tokens          *)
(* separated by single spaces (line 145 of src/gmail-integration.py        *)
(* collapses the whitespace):                                              *)
(*   label    : one of total, amount, charge, payment                      *)
(*   word     : another word of letters and digits (\w+)                   *)
(*   money    : "$" and a number: whole is the number, head the number up  *)
(*              to its first comma (what \d+(?:\.\d{2})? matches after the *)
(*              "$"), plain: it has no comma                               *)
(*   usd_pre  : "USD" and a number without commas, as in USD30.00          *)
(*   usd_post : a number with two decimals and "dollars"                   *)
(***************************************************************************)
\* Most tokens a text of the check has.
MaxTokens == 4

LabelToken == [k |-> "label"]
WordToken == [k |-> "word"]
Money(whole, head, plain) == [k |-> "money", whole |-> whole, head |-> head, plain |-> plain]
\* "$45.00", "$12,000" and "$1,250.00"
Money45 == Money(4500, 4500, TRUE)
Money12k == Money(1200000, 1200, FALSE)
Money1250 == Money(125000, 100, FALSE)
UsdPre == [k |-> "usd_pre", whole |-> 3000]
UsdPost == [k |-> "usd_post", whole |-> 2000]
Tokens == {LabelToken, WordToken, Money45, Money12k, Money1250, UsdPre, UsdPost}
TokenTexts == UNION {[1 .. n -> Tokens] : n \in 0 .. MaxTokens}

FirstOf(S) == CHOOSE i \in S : \A j \in S : i <= j
Wordlike(token) == token.k \in {"label", "word"}

\* The "$" token that pattern 1 reaches from the label at i, 0 when it does
\* not match there: (?:total|amount|charge|payment)(?:\s+\w+){0,3}\s+\$\s*(...)
LabelledFrom(text, i) ==
    LET hits == {j \in DOMAIN text :
                     /\ i < j /\ j <= i + 4
                     /\ text[j].k = "money"
                     /\ \A m \in (i + 1) .. (j - 1) : Wordlike(text[m])}
    IN IF text[i].k = "label" /\ hits # {} THEN FirstOf(hits) ELSE 0

\* amount_patterns of extract_expense_details, in order
\* (src/gmail-integration.py:147-159): what re.search gives for each, <<>>
\* when it does not match.
amount_pattern_matches(text) ==
    LET p1 == {i \in DOMAIN text : LabelledFrom(text, i) # 0}
        p2 == {i \in DOMAIN text :
                   /\ text[i].k = "money" /\ text[i].plain
                   /\ i + 1 \in DOMAIN text /\ text[i + 1].k = "label"}
        p3 == {i \in DOMAIN text : text[i].k = "usd_pre"}
        p4 == {i \in DOMAIN text : text[i].k = "usd_post"}
    IN << IF p1 = {} THEN <<>> ELSE <<text[LabelledFrom(text, FirstOf(p1))].head>>,
          IF p2 = {} THEN <<>> ELSE <<text[FirstOf(p2)].whole>>,
          IF p3 = {} THEN <<>> ELSE <<text[FirstOf(p3)].whole>>,
          IF p4 = {} THEN <<>> ELSE <<text[FirstOf(p4)].whole>> >>

\* The amount of extract_expense_details (src/gmail-integration.py:147-165):
\* the first pattern that matches, else the first "$" number of the text.
gmail_extract_amount(text) ==
    LET matches == amount_pattern_matches(text)
        matching == {p \in DOMAIN matches : matches[p] # <<>>}
        general == {i \in DOMAIN text : text[i].k = "money"}
    IN IF matching # {} THEN PyNum(matches[FirstOf(matching)][1])
       ELSE IF general # {} THEN PyNum(text[FirstOf(general)].whole)
       ELSE PyNone

\* The amounts of ExpenseNLPProcessor.extract_email_info
\* (src/advanced-ai-backend.py:178-188): the numbers that follow a "$".
RECURSIVE dollar_amounts(_)
dollar_amounts(text) ==
    IF text = <<>> THEN <<>>
    ELSE IF Head(text).k = "money"
         THEN <<Head(text).whole>> \o dollar_amounts(Tail(text))
    ELSE dollar_amounts(Tail(text))

\* The amount of the fallback of MLEmailParser.extract_expense_details
\* (src/advanced-ai-backend.py:642-650).
heuristic_extract_amount(text) ==
    IF dollar_amounts(text) # <<>> THEN PyNum(select_amount(dollar_amounts(text)))
    ELSE PyNone

InitAmount ==
    /\ impl \in {"celery", "async"}
    /\ AtRest
    /\ input \in TokenTexts
    /\ output = Pending

ExtractAmount ==
    /\ output = Pending
    /\ input \in TokenTexts
    /\ output' = IF impl = "async" THEN heuristic_extract_amount(input)
                 ELSE gmail_extract_amount(input)
    /\ UNCHANGED <<pipevars, input>>

SpecAmount == InitAmount /\ [][ExtractAmount]_vars

\* C15.  Pattern priority beats magnitude: a text with "$45.00 total" and
\* "$12,000 reference" gives 45.00; and when exactly one "$" number of a
\* text stands next to a label, directly before it, that number is the
\* amount, whatever the other "$" numbers are.
Adjacent(text, a, b) ==
    \E i \in DOMAIN text : text[i] = a /\ i + 1 \in DOMAIN text /\ text[i + 1] = b
NextToLabel(text, i) ==
    \/ i + 1 \in DOMAIN text /\ text[i + 1].k = "label"
    \/ i - 1 \in DOMAIN text /\ text[i - 1].k = "label"
C15_PatternBeatsMagnitude ==
    (input \in TokenTexts /\ output # Pending)
    => /\ (Adjacent(input, Money45, LabelToken) /\ Adjacent(input, Money12k, WordToken))
          => output = PyNum(4500)
       /\ \A i \in DOMAIN input :
              ( /\ input[i].k = "money" /\ input[i].plain
                /\ i + 1 \in DOMAIN input /\ input[i + 1].k = "label"
                /\ \A j \in DOMAIN input \ {i} :
                       input[j].k = "money" => ~NextToLabel(input, j)
                /\ \A j \in DOMAIN input : input[j].k \notin {"usd_pre", "usd_post"} )
              => output = PyNum(input[i].whole)


(***************************************************************************)
(* The choice among candidate amounts, called on its own.                  *)
(***************************************************************************)
\* Most candidate amounts of the check.
MaxAmounts == 3
\* 0.50, 1.00, 45.00, 10000.00, 10000.01 and 999999.00
CandidateAmounts == {50, PlausibleMin, 4500, PlausibleMax, PlausibleMax + 1, 99999900}
CandidateLists == UNION {[1 .. n -> CandidateAmounts] : n \in 1 .. MaxAmounts}

InitSelect ==
    /\ impl = "async"
    /\ AtRest
    /\ input \in CandidateLists
    /\ output = Pending

SelectAmount ==
    /\ output = Pending
    /\ input \in CandidateLists
    /\ output' = PyNum(select_amount(input))
    /\ UNCHANGED <<pipevars, input>>

SpecSelect == InitSelect /\ [][SelectAmount]_vars

\* C16.  Of a non-empty list of candidate amounts, the largest of those in
\* [1, 10000] is selected when there is one, else the largest of all.
IsLargest(a, S) == a \in S /\ \A b \in S : b <= a
C16_RangeThenMaximum ==
    (input \in CandidateLists /\ output # Pending)
    => LET all == {input[i] : i \in DOMAIN input}
           plausible == {a \in all : 100 <= a /\ a <= 1000000}
       IN /\ output.t = "num"
          /\ plausible # {} => IsLargest(output.v, plausible)
          /\ plausible = {} => IsLargest(output.v, all)

\* The only amounts are out of range, 999999 the largest, and it is selected.
C16_Witness ==
    /\ input \in CandidateLists
    /\ \A i \in DOMAIN input : input[i] \in {50, 99999900}
    /\ output = PyNum(99999900)


\* C17.  The merchant chain starts with the subject patterns: when a subject
\* pattern matches, the merchant of the candidate is what it captured,
\* whatever organizations entity recognition finds in subject or text.
SubjectPatternHits(args) ==
    IF impl = "async" THEN args.subject.pats ELSE args.re.subj
C17_SubjectPatternFirst ==
    (input \in ExtractorArgs /\ output # Pending /\ output.t = "dict"
       /\ SubjectPatternHits(input) # <<>>)
    => output.d["merchant"] = PyStr(SubjectPatternHits(input)[1])


\* C18.  Strict two-tier fallback of MLEmailParser.extract_expense_details:
\* with a model loaded, the result of the model-backed extractor is returned
\* as it is when the validator accepts it; in every other case (no model,
\* the model raised, its result is rejected) the result of the heuristic
\* extractor is returned as it is.
ModelResult == extract_with_transformers(input.ner, input.subject)
HeuristicResult == heuristic_extract(input.nlp, input.subject)
C18_TwoTierFallback ==
    (impl = "async" /\ input \in MLEmailParserArgs /\ output # Pending)
    => IF input.ner_model /\ ~ClaimRejects(ModelResult)
       THEN output = ModelResult
       ELSE output = HeuristicResult

\* The model gave a candidate the validator rejects, the heuristic one gave
\* another merchant, and the heuristic candidate was returned.
C18_Witness ==
    /\ impl = "async" /\ input \in MLEmailParserArgs /\ output # Pending
    /\ input.ner_model
    /\ ModelResult.t = "dict" /\ ClaimRejects(ModelResult)
    /\ HeuristicResult.t = "dict"
    /\ HeuristicResult.d["merchant"] # ModelResult.d["merchant"]
    /\ output = HeuristicResult


\* C19.  A field that could not be recovered is absent from the candidate:
\* no candidate an extractor returns maps a field to None.
C19_NoNoneField ==
    (input \in ExtractorArgs /\ output # Pending /\ output.t = "dict")
    => \A key \in DOMAIN output.d : output.d[key].t # "none"


(***************************************************************************)
(* The date of an expense.  A date text either parses                      *)
(* (dateutil.parser.parse) to a day or makes the parser raise; the header  *)
(* Date of the message is such a text, the empty text when the header is   *)
(* missing; Today is datetime.now().date().                                *)
(***************************************************************************)
\* Most date entities of a text of the check.
MaxDates == 2
DateText(day) == [ok |-> TRUE, day |-> day]
BadDateText == [ok |-> FALSE, day |-> "unparsable"]
EmptyDateText == [ok |-> FALSE, day |-> "empty"]
PyDate(day) == [t |-> "date", v |-> day]
Today == PyDate("today")
DateTexts == {DateText("day1"), DateText("day2"), BadDateText}
DateHeaders == {DateText("sent"), BadDateText, EmptyDateText}
DateArgs ==
    [dates : UNION {[1 .. n -> DateTexts] : n \in 0 .. MaxDates},
     date_str : DateHeaders]

\* try: dateutil.parser.parse(date_str).date()  except: datetime.now().date()
\* (src/task-scheduler.py:119-123, src/gmail-integration.py:81-84,
\* src/advanced-ai-backend.py:665-668)
parse_date_or_today(date_str) == IF date_str.ok THEN PyDate(date_str.day) ELSE Today

\* The 'date' of the candidates of MLEmailParser
\* (src/advanced-ai-backend.py:662-670 and 732-740).
ml_extract_date(dates) ==
    IF dates # <<>> THEN parse_date_or_today(dates[1]) ELSE Today

\* Expense(date=results.get('date', date)) of process_email
\* (src/task-scheduler.py:134-135): every candidate of MLEmailParser has the
\* key 'date'.
process_email_expense_date(args) ==
    LET date == parse_date_or_today(args.date_str)
        results == [date |-> ml_extract_date(args.dates)]
    IN IF "date" \in DOMAIN results THEN results["date"] ELSE date

\* Expense(date=date) of process_email_message (src/gmail-integration.py:81-84
\* and 109-110).
process_email_message_expense_date(args) == parse_date_or_today(args.date_str)

InitDate ==
    /\ impl \in {"celery", "async"}
    /\ AtRest
    /\ input \in DateArgs
    /\ output = Pending

ExpenseDate ==
    /\ output = Pending
    /\ input \in DateArgs
    /\ output' = IF impl = "async" THEN process_email_expense_date(input)
                 ELSE process_email_message_expense_date(input)
    /\ UNCHANGED <<pipevars, input>>

SpecDate == InitDate /\ [][ExpenseDate]_vars

\* C20.  The date of the expense is the first date entity of the text when
\* it parses; else the sent date of the message; and today only when the sent
\* date is missing or does not parse.
C20_DateFallback ==
    (input \in DateArgs /\ output # Pending)
    => output = IF input.dates # <<>> /\ input.dates[1].ok
                THEN PyDate(input.dates[1].day)
                ELSE IF input.date_str.ok THEN PyDate(input.date_str.day)
                ELSE PyDate("today")


(***************************************************************************)
(* Model artifacts.  process_email constructs MLEmailParser() for every    *)
(* message it extracts from (src/task-scheduler.py:129), whose __init__    *)
(* loads the NER model (torch.load of the file, or from_pretrained when    *)
(* there is none); the fallback of extract_expense_details and             *)
(* categorize_expense each construct ExpenseNLPProcessor()                 *)
(* (src/advanced-ai-backend.py:636, src/task-scheduler.py:199), whose      *)
(* __init__ unpickles the classifier file when it exists.  train_model     *)
(* fits a model and then writes the file in place: open(path, 'wb')        *)
(* truncates it, pickle.dump fills it, and nothing in the code excludes a  *)
(* second training or a load meanwhile.  objects holds the file, the       *)
(* trainers' positions and results, the loads of one process and what the  *)
(* last load read.                                                         *)
(***************************************************************************)
\* Messages one process handles in a behaviour.
MaxProcessed == 3
\* Workers that may call train_model on the artifact.
MaxTrainers == 2

Trainers == 1..MaxTrainers

\* The pipeline's state when only the objects of this section move.
Quiet ==
    /\ expenses = {}
    /\ categories = {[id |-> u, name |-> "Other", user_id |-> u] : u \in Users}
    /\ nextCatId = MaxRuns + 1
    /\ mailbox = [m \in Msgs |-> NoId]
    /\ runs = [r \in Runs |-> IdleRun]
    /\ tasks = [u \in Users |-> IdleTask]
    /\ queue = {}
    /\ candidate = PyNone
    /\ verdict = "pending"
    /\ input = PyNone
    /\ output = PyNone
quietvars == <<impl, dbvars, mailbox, runs, schedvars, candidate, verdict, input, output>>

\* MLEmailParser.load_or_initialize_model: one load of the NER model, from
\* the file or from the hub.
load_or_initialize_model(o) == [o EXCEPT !.ner_loads = @ + 1]

\* ExpenseNLPProcessor.load_or_create_model: unpickles whatever the file
\* holds at that moment when the file exists.
load_or_create_model(o) ==
    IF o.file = "absent" THEN o
    ELSE [o EXCEPT !.classifier_loads = @ + 1, !.last_read = o.file]

\* The objects process_email builds for one message, by the path it takes:
\*   skipped  : it returns or fails before the parser is built
\*   model    : the model's candidate is accepted, then categorized
\*   rejected : the fallback runs and gives no candidate
\*   fallback : the fallback's candidate is categorized
process_email_objects(o, path) ==
    LET parser == load_or_initialize_model(o)
    IN IF path = "skipped" THEN o
       ELSE IF path = "model" THEN load_or_create_model(parser)
       ELSE IF path = "rejected" THEN load_or_create_model(parser)
       ELSE load_or_create_model(load_or_create_model(parser))

InitLoads ==
    /\ impl = "async"
    /\ Quiet
    /\ objects \in [file : {"absent", "complete"}, ner_loads : {0},
                    classifier_loads : {0}, processed : {0},
                    last_read : {"nothing"},
                    pc : {[t \in Trainers |-> "idle"]},
                    result : {[t \in Trainers |-> "none"]}]

ProcessMessage ==
    /\ objects.processed < MaxProcessed
    /\ \E path \in {"skipped", "model", "rejected", "fallback"} :
         objects' = [process_email_objects(objects, path) EXCEPT !.processed = @ + 1]
    /\ UNCHANGED quietvars

\* train_model up to the fit: too few expenses or no labelled text returns
\* False, otherwise the model is fitted in memory.
train_model_fit(t) ==
    /\ objects.pc[t] = "idle"
    /\ \E enough \in BOOLEAN :
         objects' = IF enough THEN [objects EXCEPT !.pc[t] = "fitted", !.result[t] = "none"]
                    ELSE [objects EXCEPT !.result[t] = "False"]
    /\ objects' # objects
    /\ UNCHANGED quietvars

\* open(self.model_path, 'wb'): the file is truncated.
train_model_open(t) ==
    /\ objects.pc[t] = "fitted"
    /\ objects' = [objects EXCEPT !.pc[t] = "writing", !.file = "partial"]
    /\ UNCHANGED quietvars

\* pickle.dump returns and the file is closed.  Alone, the writer leaves a
\* complete artifact; with another writer in the same file, either.
train_model_close(t) ==
    /\ objects.pc[t] = "writing"
    /\ \E left \in {"complete", "partial"} :
         /\ (\A s \in Trainers \ {t} : objects.pc[s] # "writing") => left = "complete"
         /\ objects' = [objects EXCEPT !.pc[t] = "idle", !.result[t] = "True",
                                       !.file = left]
    /\ UNCHANGED quietvars

NextLoads ==
    \/ ProcessMessage
    \/ \E t \in Trainers : train_model_fit(t)
    \/ \E t \in Trainers : train_model_open(t)
    \/ \E t \in Trainers : train_model_close(t)

SpecLoads == InitLoads /\ [][NextLoads]_vars

\* C21.  Within one process each model artifact is loaded at most once,
\* however many messages are processed.
C21_LoadedOnce ==
    objects.ner_loads <= 1 /\ objects.classifier_loads <= 1

Writers == {t \in Trainers : objects.pc[t] = "writing"}

\* C22.  At most one train_model writes the artifact at a time, and no load
\* reads the file while it is being written.
C22_SingleWriterManyReaders ==
    /\ Cardinality(Writers) <= 1
    /\ objects.last_read # "partial"


(***************************************************************************)
(* C23: which section the body extractor takes.                            *)
(***************************************************************************)
\* The sections of a list of parts in depth-first order.
RECURSIVE Traversal(_)
Traversal(parts) ==
    IF parts = <<>> THEN <<>>
    ELSE <<Head(parts)>> \o Traversal(Head(parts).parts) \o Traversal(Tail(parts))

\* The first section of the given type in the traversal, 0 when none.
FirstSection(parts, mimeType) ==
    LET flat == Traversal(parts)
        hits == {i \in DOMAIN flat : flat[i].mimeType = mimeType}
    IN IF hits = {} THEN 0 ELSE CHOOSE i \in hits : \A j \in hits : i <= j

\* The body the payload's text is to come from, and whether its markup is
\* to be stripped; NoData when there is neither plain text nor HTML.
PreferredSection(payload) ==
    LET flat == Traversal(payload.parts)
        plain == FirstSection(payload.parts, "text/plain")
        html == FirstSection(payload.parts, "text/html")
    IN IF ~payload.has_parts THEN [data |-> payload.data, strip |-> FALSE]
       ELSE IF plain # 0 THEN [data |-> flat[plain].data, strip |-> FALSE]
       ELSE IF html # 0 THEN [data |-> flat[html].data, strip |-> TRUE]
       ELSE [data |-> NoData, strip |-> FALSE]

\* C23.  When the first text/plain section of the traversal decodes, the
\* extractor returns its text; when there is no text/plain section and the
\* first text/html section decodes, its text without markup; a payload
\* without parts gives the text of its single body.
C23_FirstPlainElseFirstHtml ==
    (input \in Payloads /\ output # Pending /\ PreferredSection(input).data.kind = "ok")
    => output = (IF PreferredSection(input).strip
                 THEN get_text(PyStr(PreferredSection(input).data.text))
                 ELSE PyStr(PreferredSection(input).data.text))


(***************************************************************************)
(* C24-C26: the course of one call.                                        *)
(***************************************************************************)
\* The place of a step in the pipeline's order.
StepOrder(step) ==
    CASE step = "user"       -> 0
      [] step = "dedup"      -> 1
      [] step = "fetch"      -> 2
      [] step = "body"       -> 3
      [] step = "extract"    -> 4
      [] step = "categorize" -> 5
      [] step = "commit"     -> 6
      [] OTHER               -> 7
InPipelineOrder(steps) ==
    \A i, j \in DOMAIN steps : i < j => StepOrder(steps[i]) < StepOrder(steps[j])

\* The steps of every call follow the pipeline's order (the part of C24 the
\* code keeps).
StepsInOrder == \A r \in Runs : InPipelineOrder(runs[r].steps)

\* C24.  The steps of a call follow the order fetch, body, extraction,
\* validation, categorization, persistence: a call that persisted was
\* categorized before its commit and its candidate had passed the validator;
\* a call nothing disturbed that did not persist ended Skipped(duplicate) or
\* Skipped(no-valid-candidate).
C24_StateOrder ==
    \A r \in Runs :
        /\ InPipelineOrder(runs[r].steps)
        /\ runs[r].outcome = "persisted"
           => /\ Did(runs[r], "extract") /\ Did(runs[r], "categorize")
              /\ validate_extraction(runs[r].cand)
        /\ (Done(r) /\ Undisturbed(runs[r]) /\ runs[r].user \in Users
                /\ runs[r].outcome # "persisted")
           => runs[r].outcome \in {"skipped_duplicate", "skipped_no_details"}


\* Every collaborator call returns or raises: a call that has started goes on.
SpecLive ==
    Init /\ [][Next]_vars
         /\ \A r \in Runs : WF_vars(categorize_expense(r) \/ gmail_categorize_expense(r)
                                      \/ Commit(r))

\* Every call that starts comes to its end (the part of C25 the code keeps).
RunsTerminate == \A r \in Runs : Started(r) ~> Done(r)

\* No step of a call is taken twice.
NoStepTwice(run) ==
    \A i, j \in DOMAIN run.steps : run.steps[i] = run.steps[j] => i = j

\* The pipeline's own components: body extractor, extractors, categorizer.
ComponentErrors == {"decode", "model", "extract"}

\* C25.  Within a call no step is taken twice, and a call in which a
\* component failed went on with the fallback or ended as a skip.
C25_NoRetryFailureSkips ==
    \A r \in Runs :
        /\ NoStepTwice(runs[r])
        /\ (Done(r) /\ runs[r].err \in ComponentErrors)
           => runs[r].outcome \in {"persisted", "skipped_duplicate", "skipped_no_details"}


\* C26.  A call that starts for an existing user and a message id of which
\* an expense is stored, whoever owns it, and whose dedup query does not
\* fail, ends at once Skipped(duplicate) and stores nothing.
C26_DedupAcrossUsers ==
    [][\A r \in Runs :
          (/\ runs[r].pc = "idle" /\ runs'[r].pc # "idle"
           /\ \E e \in expenses : e.email_id = runs'[r].mid
           /\ runs'[r].user \in Users
           /\ runs'[r].err # "store_read")
          => /\ runs'[r].outcome = "skipped_duplicate"
             /\ runs'[r].pc = "done"
             /\ expenses' = expenses]_vars

\* A call for user u was skipped as a duplicate of an expense another user owns.
C26_Witness ==
    \E r \in Runs, e \in expenses :
        /\ runs[r].outcome = "skipped_duplicate"
        /\ e.email_id = runs[r].mid
        /\ e.user_id # runs[r].user
        /\ \A x \in expenses : x.user_id # runs[r].user


(***************************************************************************)
(* ConnectionManager (src/websocket-manager.py).  active_connections is a  *)
(* dict from user id to a list of websockets: slots are the dict's entries *)
(* in insertion order, 0 where a key was deleted, and lists[u] is the list *)
(* under key u.  objects holds the registry, each websocket's state (new,  *)
(* open once accepted, refused when accept raised), the pairs connected    *)
(* and not since disconnected (live), the kind of the last call, and the   *)
(* one broadcast in progress (bc).                                         *)
(***************************************************************************)
MaxSockets == 2

Sockets == 1 .. MaxSockets
NoUser == 0

EmptyRegistry == [slots |-> <<>>, lists |-> [u \in Users |-> <<>>]]
Keys(reg) == SeqRange(reg.slots) \ {NoUser}
\* The (websocket, user) pairs the registry holds.
Registered(reg) ==
    {p \in Sockets \X Users : p[2] \in Keys(reg) /\ p[1] \in SeqRange(reg.lists[p[2]])}

\* list.remove(x): the list without the first x.
ListRemove(list, x) ==
    LET at == CHOOSE i \in DOMAIN list : list[i] = x /\ \A j \in 1 .. i - 1 : list[j] # x
    IN SubSeq(list, 1, at - 1) \o SubSeq(list, at + 1, Len(list))

\* del d[key]: the entry becomes a hole in the dict's entries.
DictDel(slots, key) == [i \in DOMAIN slots |-> IF slots[i] = key THEN NoUser ELSE slots[i]]

\* connect after accept returned (lines 17-20)
connect_register(reg, websocket, user_id) ==
    [slots |-> IF user_id \in Keys(reg) THEN reg.slots ELSE Append(reg.slots, user_id),
     lists |-> [reg.lists EXCEPT ![user_id] = Append(@, websocket)]]

\* Mutant: the user's empty list is left in the dict.
disconnect_no_cleanup(reg, websocket, user_id) ==
    IF user_id \in Keys(reg) /\ websocket \in SeqRange(reg.lists[user_id])
    THEN [reg EXCEPT !.lists[user_id] = ListRemove(@, websocket)]
    ELSE reg

\* disconnect (lines 22-30)
disconnect(reg, websocket, user_id) ==
    IF user_id \in Keys(reg)
    THEN LET list == IF websocket \in SeqRange(reg.lists[user_id])
                     THEN ListRemove(reg.lists[user_id], websocket)
                     ELSE reg.lists[user_id]
         IN IF list = <<>>
            THEN [slots |-> DictDel(reg.slots, user_id),
                  lists |-> [reg.lists EXCEPT ![user_id] = <<>>]]
            ELSE [reg EXCEPT !.lists[user_id] = list]
    ELSE reg

IdleBroadcast ==
    [pc |-> "idle", scope |-> NoUser, cur |-> NoUser, k |-> 0, i |-> 0,
     detached |-> FALSE, size |-> 0, start |-> {}, end |-> {},
     sent |-> [w \in Sockets |-> 0]]

\* The websockets a broadcast of this scope is for: those of one user, or all.
InScope(reg, scope) ==
    {p[1] : p \in {q \in Registered(reg) : scope = NoUser \/ q[2] = scope}}

\* await connection.send_text(...): the message goes to the websocket.
Send(bc, websocket) == [bc EXCEPT !.sent[websocket] = @ + 1]

Finish(bc, reg, pc) == [bc EXCEPT !.pc = pc, !.cur = NoUser, !.end = InScope(reg, bc.scope)]

\* next() of the iterator over active_connections.values() and, when it
\* gives a list, the first step of the loop over that list.  A dict whose
\* size changed since the loop began raises RuntimeError.
OuterNext(bc, reg) ==
    LET later == {j \in DOMAIN reg.slots : j > bc.k /\ reg.slots[j] # NoUser}
        j == CHOOSE x \in later : \A y \in later : x <= y
    IN IF Cardinality(Keys(reg)) # bc.size THEN Finish(bc, reg, "error")
       ELSE IF later = {} THEN Finish(bc, reg, "done")
       ELSE Send([bc EXCEPT !.cur = reg.slots[j], !.k = j, !.i = 1, !.detached = FALSE],
                 reg.lists[reg.slots[j]][1])

\* next() of the iterator over the list of bc.cur: the element at the
\* iterator's index in the list as it is now, if there is one.
InnerNext(bc, reg) ==
    LET list == IF bc.detached THEN <<>> ELSE reg.lists[bc.cur]
    IN IF bc.i < Len(list) THEN Send([bc EXCEPT !.i = @ + 1], list[bc.i + 1])
       ELSE IF bc.scope # NoUser THEN Finish(bc, reg, "done")
       ELSE OuterNext(bc, reg)

InitSockets ==
    /\ impl = "async"
    /\ Quiet
    /\ objects = [reg |-> EmptyRegistry, state |-> [w \in Sockets |-> "new"],
                  live |-> {}, last |-> "none", bc |-> IdleBroadcast]

\* connect (lines 13-20).  accept raises for a websocket that was accepted
\* or refused before, and may raise for a new one; then nothing is
\* registered.
connect(websocket, user_id) ==
    /\ \E accepted \in BOOLEAN :
         objects' =
            IF objects.state[websocket] = "new" /\ accepted
            THEN [objects EXCEPT !.state[websocket] = "open",
                                 !.reg = connect_register(@, websocket, user_id),
                                 !.live = @ \cup {<<websocket, user_id>>},
                                 !.last = "connect"]
            ELSE [objects EXCEPT !.state[websocket] =
                                     IF @ = "new" THEN "refused" ELSE @,
                                 !.last = "connect_raised"]
    /\ UNCHANGED quietvars

\* A call of disconnect; the list a broadcast is looping over stays the
\* loop's own when its key is deleted.
Disconnect(websocket, user_id) ==
    LET reg == disconnect(objects.reg, websocket, user_id)
        known == <<websocket, user_id>> \in Registered(objects.reg)
        deleted == user_id \in Keys(objects.reg) /\ user_id \notin Keys(reg)
    IN /\ objects' = [objects EXCEPT
                         !.reg = reg,
                         !.live = @ \ {<<websocket, user_id>>},
                         !.last = IF known THEN "disconnect" ELSE "disconnect_unregistered",
                         !.bc.detached = @ \/ (deleted /\ objects.bc.cur = user_id)]
       /\ UNCHANGED quietvars

\* broadcast_to_user (lines 36-40) up to its first send
broadcast_to_user(user_id) ==
    LET begun == [IdleBroadcast EXCEPT !.pc = "loop", !.scope = user_id,
                                       !.cur = user_id,
                                       !.start = InScope(objects.reg, user_id)]
    IN /\ objects.bc.pc = "idle"
       /\ objects' = [objects EXCEPT
                         !.bc = IF user_id \in Keys(objects.reg)
                                THEN InnerNext(begun, objects.reg)
                                ELSE Finish(begun, objects.reg, "done"),
                         !.last = "broadcast"]
       /\ UNCHANGED quietvars

\* broadcast (lines 42-46) up to its first send
broadcast ==
    LET begun == [IdleBroadcast EXCEPT !.pc = "loop",
                                       !.size = Cardinality(Keys(objects.reg)),
                                       !.start = InScope(objects.reg, NoUser)]
    IN /\ objects.bc.pc = "idle"
       /\ objects' = [objects EXCEPT !.bc = OuterNext(begun, objects.reg),
                                     !.last = "broadcast"]
       /\ UNCHANGED quietvars

\* The send returned: the loop goes on to its next send or ends.
broadcast_resume ==
    /\ objects.bc.pc = "loop"
    /\ objects' = [objects EXCEPT !.bc = InnerNext(@, objects.reg),
                                  !.last = "broadcast"]
    /\ UNCHANGED quietvars

NextSockets ==
    \/ \E w \in Sockets, u \in Users : connect(w, u)
    \/ \E w \in Sockets, u \in Users : Disconnect(w, u)
    \/ \E u \in Users : broadcast_to_user(u)
    \/ broadcast
    \/ broadcast_resume

SpecSockets == InitSockets /\ [][NextSockets]_vars

\* C27.  No user id maps to an empty list; a websocket is listed under a
\* user exactly when it was connected for that user and not since
\* disconnected for that user; and a disconnect of a websocket that is not
\* registered under the user leaves the registry as it was.
C27_RegistryInvariant ==
    /\ [](/\ \A u \in Keys(objects.reg) : objects.reg.lists[u] # <<>>
          /\ Registered(objects.reg) = objects.live)
    /\ [][objects'.last = "disconnect_unregistered" => objects'.reg = objects.reg]_vars

\* A websocket was connected and disconnected again, another is still
\* listed, and a disconnect of an unregistered websocket has just run.
C27_Witness ==
    /\ objects.last = "disconnect_unregistered"
    /\ \E w \in Sockets : objects.state[w] = "open" /\ \A u \in Users : <<w, u>> \notin objects.live
    /\ objects.live # {}

\* C28.  A broadcast ends without error and has sent exactly once to every
\* connection registered at its start and still registered at its end.
C28_BroadcastUnderChurn ==
    objects.bc.pc \in {"done", "error"}
    => /\ objects.bc.pc = "done"
       /\ \A w \in objects.bc.start \cap objects.bc.end : objects.bc.sent[w] = 1


(***************************************************************************)
(* The routes of src/backend-setup.py that write users and categories.     *)
(* Table users is objects.users; objects.last is the last request and its  *)
(* response.  A request is one transaction per commit in it.               *)
(***************************************************************************)
\* Expenses in the store at the start.
MaxStored == 2

Emails == {"a@x", "b@x"}
RefreshTokens == {"t1", "t2"}
\* default_categories (src/backend-setup.py:110)
DefaultCategories == <<"Food", "Shopping", "Transportation", "Entertainment", "Bills", "Other">>

UserA == [id |-> 1, email |-> "a@x", refresh_token |-> "t1"]
UserB == [id |-> 2, email |-> "b@x", refresh_token |-> "t1"]
StoredCategories ==
    {[id |-> 1, name |-> "Food", user_id |-> 1],
     [id |-> 2, name |-> "Uncategorized", user_id |-> 1],
     [id |-> 3, name |-> "Uncategorized", user_id |-> 2]}
StoredExpense(id, u, category_id) ==
    [id |-> id, email_id |-> id, user_id |-> u, amount |-> PyNum(4500),
     merchant |-> PyStr(Acme), category_id |-> category_id]

\* Stores the routes can have built: every row's user exists, an expense's
\* category is null or one of its user's, ids are unique.
Stores ==
    {s \in [users : {{UserA}, {UserA, UserB}},
            categories : SUBSET StoredCategories,
            expenses : SUBSET {StoredExpense(id, u, c) :
                                   id \in 1 .. MaxStored, u \in 1 .. 2, c \in 0 .. 3}] :
        /\ \A c \in s.categories : \E u \in s.users : u.id = c.user_id
        /\ \A e \in s.expenses :
              /\ \E u \in s.users : u.id = e.user_id
              /\ e.category_id # NoId
                 => \E c \in s.categories : c.id = e.category_id /\ c.user_id = e.user_id
        /\ \A e, f \in s.expenses : e.id = f.id => e = f}

NoRequest == [op |-> "none", status |-> 0]

InitStore ==
    /\ impl = "celery"
    /\ \E s \in Stores :
         /\ expenses = s.expenses
         /\ categories = s.categories
         /\ objects = [users |-> s.users, last |-> NoRequest]
    /\ nextCatId = 4
    /\ mailbox = [m \in Msgs |-> NoId]
    /\ runs = [r \in Runs |-> IdleRun]
    /\ tasks = [u \in Users |-> IdleTask]
    /\ queue = {}
    /\ candidate = PyNone
    /\ verdict = "pending"
    /\ input = PyNone
    /\ output = PyNone

storevars == <<impl, mailbox, runs, schedvars, candidate, verdict, input, output>>

\* delete_category (src/backend-setup.py:170-193).  The user's
\* "Uncategorized" category is found or created and committed; the expenses
\* of the category are moved to it; the category is deleted, and the ORM
\* sets to null the category_id of the expenses its relationship still
\* holds (Category.expenses has no cascade) before the second commit.
delete_category(category_id) ==
    LET found == {c \in categories : c.id = category_id}
        category == CHOOSE c \in found : TRUE
        existing == {c \in categories :
                         c.name = "Uncategorized" /\ c.user_id = category.user_id}
        uncategorized == IF existing # {} THEN CHOOSE c \in existing : TRUE
                         ELSE [id |-> nextCatId, name |-> "Uncategorized",
                               user_id |-> category.user_id]
        referenced == {e \in expenses : e.category_id = category.id}
        moved == {IF e \in referenced THEN [e EXCEPT !.category_id = uncategorized.id]
                  ELSE e : e \in expenses}
        nullified == {IF e.category_id = category.id THEN [e EXCEPT !.category_id = NoId]
                      ELSE e : e \in moved}
    IN IF found = {}
       THEN /\ objects' = [objects EXCEPT
                              !.last = [op |-> "delete_category", status |-> 404,
                                        category_id |-> category_id]]
            /\ UNCHANGED dbvars
       ELSE /\ categories' = (categories \cup {uncategorized}) \ {category}
            /\ nextCatId' = IF existing = {} THEN nextCatId + 1 ELSE nextCatId
            /\ expenses' = nullified
            /\ objects' = [objects EXCEPT
                              !.last = [op |-> "delete_category", status |-> 200,
                                        category_id |-> category_id,
                                        user_id |-> category.user_id,
                                        referenced |-> {e.id : e \in referenced}]]

DeleteCategory ==
    /\ \E category_id \in 1 .. 4 : delete_category(category_id)
    /\ UNCHANGED storevars

\* google_auth (src/backend-setup.py:93-121).  For a new email the six
\* categories are built with user_id=user.id while the user has no id yet
\* (it is assigned by the flush of the commit), so they are inserted with a
\* null user_id: categories.user_id is NOT NULL, the commit raises
\* IntegrityError and the transaction, user included, is rolled back.
google_auth(email, refresh_token) ==
    LET found == {u \in objects.users : u.email = email}
        user == CHOOSE u \in found : TRUE
        request == [op |-> "google_auth", email |-> email, refresh_token |-> refresh_token]
    IN IF email = "" \/ refresh_token = ""
       THEN objects' = [objects EXCEPT !.last = request @@ [status |-> 400]]
       ELSE IF found # {}
       THEN objects' = [users |-> (objects.users \ {user})
                                   \cup {[user EXCEPT !.refresh_token = refresh_token]},
                        last |-> request @@ [status |-> 200]]
       ELSE objects' = [objects EXCEPT !.last = request @@ [status |-> 500]]

GoogleAuth ==
    /\ \E email \in Emails \cup {""}, refresh_token \in RefreshTokens \cup {""} :
         google_auth(email, refresh_token)
    /\ UNCHANGED <<dbvars, storevars>>

NextStore == DeleteCategory \/ GoogleAuth

SpecStore == InitStore /\ [][NextStore]_vars

\* C29.  After delete_category(c) succeeded, c is gone, every expense that
\* referenced c references the "Uncategorized" category of c's user, and no
\* expense references a category that does not exist.
C29_DeleteReassigns ==
    [][(objects'.last.op = "delete_category" /\ objects'.last.status = 200
            /\ objects'.last # objects.last)
       => /\ \A c \in categories' : c.id # objects'.last.category_id
          /\ \A e \in expenses' :
                e.id \in objects'.last.referenced
                => \E c \in categories' :
                      /\ c.id = e.category_id
                      /\ c.name = "Uncategorized"
                      /\ c.user_id = objects'.last.user_id
          /\ \A e \in expenses' :
                e.category_id # NoId => \E c \in categories' : c.id = e.category_id]_vars

\* C30.  google_auth for an email without a user succeeds and leaves exactly
\* one user with that email, who owns exactly the six default categories;
\* for an email with a user it adds no user and no category and changes
\* only that user's refresh token.
Owned(cats, u) == {c \in cats : c.user_id = u.id}
C30_GoogleAuth ==
    [][(objects'.last.op = "google_auth" /\ objects'.last.status # 400
            /\ objects'.last # objects.last)
       => IF \E u \in objects.users : u.email = objects'.last.email
          THEN /\ objects'.last.status = 200
               /\ categories' = categories
               /\ {[id |-> u.id, email |-> u.email] : u \in objects'.users}
                     = {[id |-> u.id, email |-> u.email] : u \in objects.users}
               /\ \A u \in objects'.users :
                     u.email # objects'.last.email => u \in objects.users
          ELSE /\ objects'.last.status = 200
               /\ \E u \in objects'.users :
                     /\ u.email = objects'.last.email
                     /\ \A v \in objects'.users : v.email = u.email => v = u
                     /\ {c.name : c \in Owned(categories', u)} = SeqRange(DefaultCategories)
                     /\ Cardinality(Owned(categories', u)) = Len(DefaultCategories)]_vars


=============================================================================
